---- MODULE Spec2Model ----
(***************************************************************************)
(* A model of the vtx-cli packaging pipeline (src/src/packager.rs).        *)
(*                                                                         *)
(* A WebAssembly binary is a sequence of bytes (naturals below 256).  The  *)
(* operators of the first half are the pure functions of packager.rs and   *)
(* the parts of the wasmparser grammar they rely on (header, LEB128,       *)
(* section framing, custom section names, component export entries).  The  *)
(* second half is process_wasm as a state machine, one action per stage.   *)
(*                                                                         *)
(* A value that Rust binds once with `let` and uses several times is the   *)
(* parameter of a helper operator here, so that it is written once.        *)
(***************************************************************************)
EXTENDS Integers, Sequences, FiniteSets, TLC

(***************************************************************************)
(* Bounds of the model.                                                    *)
(***************************************************************************)
\* the largest number of top-level sections of an input binary
MaxSections == 2

(***************************************************************************)
(* String literals of packager.rs, as their ASCII bytes.                   *)
(***************************************************************************)
\* "component-type:wit-bindgen:"
BINDGEN_PREFIX ==
    <<99, 111, 109, 112, 111, 110, 101, 110, 116, 45, 116, 121, 112, 101, 58,
      119, 105, 116, 45, 98, 105, 110, 100, 103, 101, 110, 58>>

\* "with-all-of-its-exports-removed"
EXPORTS_REMOVED_MARKER ==
    <<119, 105, 116, 104, 45, 97, 108, 108, 45, 111, 102, 45, 105, 116, 115,
      45, 101, 120, 112, 111, 114, 116, 115, 45, 114, 101, 109, 111, 118,
      101, 100>>

\* "handle"
NAME_HANDLE == <<104, 97, 110, 100, 108, 101>>

\* "get-manifest"
NAME_MANIFEST == <<103, 101, 116, 45, 109, 97, 110, 105, 102, 101, 115, 116>>

\* "get-capabilities"
NAME_CAPABILITIES ==
    <<103, 101, 116, 45, 99, 97, 112, 97, 98, 105, 108, 105, 116, 105, 101, 115>>

\* "vtx:api/plugin/"
PLUGIN_SLASH == <<118, 116, 120, 58, 97, 112, 105, 47, 112, 108, 117, 103, 105, 110, 47>>

\* "vtx:api/plugin#"
PLUGIN_HASH == <<118, 116, 120, 58, 97, 112, 105, 47, 112, 108, 117, 103, 105, 110, 35>>

\* the three literal names one match arm of validate_contract accepts
Aliases(short) == {short, PLUGIN_SLASH \o short, PLUGIN_HASH \o short}

HANDLE_ALIASES == Aliases(NAME_HANDLE)

MANIFEST_ALIASES == Aliases(NAME_MANIFEST)

CAPABILITIES_ALIASES == Aliases(NAME_CAPABILITIES)

(***************************************************************************)
(* str::starts_with and str::contains on byte strings.                     *)
(***************************************************************************)
StartsWith(s, p) == Len(p) <= Len(s) /\ SubSeq(s, 1, Len(p)) = p

Contains(s, p) ==
    \E i \in 0..(Len(s) - Len(p)) : SubSeq(s, i + 1, i + Len(p)) = p

\* the bytes of s from the 1-based position pos on
Drop(s, pos) == SubSeq(s, pos, Len(s))

(***************************************************************************)
(* wasmparser's BinaryReader: read_var_u32 and read_string.  Positions are *)
(* 1-based; a result carries the position after what was read.             *)
(***************************************************************************)
RECURSIVE LebFrom(_, _, _, _)
LebFrom(data, pos, shift, acc) ==
    IF pos > Len(data)
    THEN [ok |-> FALSE, val |-> 0, next |-> pos]
    ELSE LET b == data[pos]
         IN  IF shift >= 25 /\ (b \div (2 ^ (32 - shift))) # 0
             THEN [ok |-> FALSE, val |-> 0, next |-> pos]
             ELSE IF b < 128
                  THEN [ok |-> TRUE, val |-> acc + b * (2 ^ shift), next |-> pos + 1]
                  ELSE LebFrom(data, pos + 1, shift + 7, acc + (b % 128) * (2 ^ shift))

read_var_u32(data, pos) == LebFrom(data, pos, 0, 0)

\* core::str::from_utf8 accepts s: well-formed UTF-8, no overlong forms, no surrogates
RECURSIVE Utf8Valid(_)
Utf8Valid(s) ==
    IF s = <<>> THEN TRUE
    ELSE LET b == s[1]
             Cont(i) == i <= Len(s) /\ s[i] >= 128 /\ s[i] <= 191
         IN  IF b < 128 THEN Utf8Valid(Drop(s, 2))
             ELSE IF b >= 194 /\ b <= 223
                  THEN Cont(2) /\ Utf8Valid(Drop(s, 3))
             ELSE IF b >= 224 /\ b <= 239
                  THEN /\ Cont(2) /\ Cont(3)
                       /\ (b = 224 => s[2] >= 160)
                       /\ (b = 237 => s[2] <= 159)
                       /\ Utf8Valid(Drop(s, 4))
             ELSE IF b >= 240 /\ b <= 244
                  THEN /\ Cont(2) /\ Cont(3) /\ Cont(4)
                       /\ (b = 240 => s[2] >= 144)
                       /\ (b = 244 => s[2] <= 143)
                       /\ Utf8Valid(Drop(s, 5))
             ELSE FALSE

\* k var_u32 values in a row
RECURSIVE SkipVarU32s(_, _, _)
SkipVarU32s(data, pos, k) ==
    IF k = 0 THEN [ok |-> TRUE, val |-> 0, next |-> pos]
    ELSE LET n == read_var_u32(data, pos)
         IN  IF n.ok THEN SkipVarU32s(data, n.next, k - 1) ELSE n

\* the string of n.val bytes after the length n, if it is there and valid
StringAfter(data, pos, n) ==
    IF ~n.ok \/ n.next + n.val - 1 > Len(data)
    THEN [ok |-> FALSE, str |-> <<>>, next |-> pos]
    ELSE IF Utf8Valid(SubSeq(data, n.next, n.next + n.val - 1))
    THEN [ok |-> TRUE, str |-> SubSeq(data, n.next, n.next + n.val - 1),
          next |-> n.next + n.val]
    ELSE [ok |-> FALSE, str |-> <<>>, next |-> pos]

read_string(data, pos) == StringAfter(data, pos, read_var_u32(data, pos))

(***************************************************************************)
(* wasmparser::Parser.  A parser is its state: st is Header, SectionStart  *)
(* or FunctionBody (inside a code section: remaining bodies, len bytes of  *)
(* the section left); a parser nested in a component's module or component *)
(* section is limited to the max_size bytes of that section.               *)
(***************************************************************************)
WasmParser ==
    [st |-> "Header", encoding |-> "Module", remaining |-> 0, len |-> 0,
     limited |-> FALSE, max_size |-> 0]

\* Parser::new for the contents of a nested section of len bytes
NestedParser(len) == [WasmParser EXCEPT !.limited = TRUE, !.max_size = len]

\* "\0asm"
WASM_MAGIC == <<0, 97, 115, 109>>

\* Err(BinaryReaderError)
ParseErr(p, msg) ==
    [ok |-> FALSE, err |-> msg, consumed |-> 0, kind |-> "Error", id |-> 0,
     name |-> <<>>, body |-> <<>>, parser |-> p, nested |-> p]

\* Ok(Chunk::Parsed { consumed, payload }), with the parser's next state
Parsed(p, n, kind, id, name, body) ==
    [ok |-> TRUE, err |-> "", consumed |-> n, kind |-> kind, id |-> id,
     name |-> name, body |-> body, parser |-> p, nested |-> p]

\* the encoding of a version and a layer, "" when there is none
\* variant of the version table that takes an unknown version for a module
EncodingOf_defaultModule(version, layer) ==
    IF version = 13 /\ layer = 1 THEN "Component" ELSE "Module"

EncodingOf(version, layer) ==
    IF version = 1 /\ layer = 0 THEN "Module"
    ELSE IF version = 13 /\ layer = 1 THEN "Component"
    ELSE ""

\* State::Header: the magic, then the u16 version and u16 layer of bytes [4,8)
ParseHeader(p, data) ==
    IF Len(data) < 4 THEN ParseErr(p, "unexpected end-of-file")
    ELSE IF SubSeq(data, 1, 4) # WASM_MAGIC
         THEN ParseErr(p, "magic header not detected: bad magic number")
    ELSE IF Len(data) < 8 THEN ParseErr(p, "unexpected end-of-file")
    ELSE IF EncodingOf(data[5] + 256 * data[6], data[7] + 256 * data[8]) = ""
         THEN ParseErr(p, "unknown binary version and encoding combination")
    ELSE Parsed([p EXCEPT !.st = "SectionStart",
                          !.encoding = EncodingOf(data[5] + 256 * data[6],
                                                  data[7] + 256 * data[8])],
                8, "Version", 0, <<>>, <<>>)

\* sections read through SectionLimited: a var_u32 count, items read lazily
LimitedIds(encoding) ==
    IF encoding = "Module" THEN {1, 2, 3, 4, 5, 6, 7, 9, 11, 13}
    ELSE {2, 3, 5, 6, 7, 8, 10, 11, 12}

\* sections holding one item that must fill the section (start, data count)
SingleItemIds(encoding) == IF encoding = "Module" THEN {8, 12} ELSE {}

\* the payload kind of a SectionLimited section
LimitedKind(encoding, id) ==
    IF encoding = "Component" /\ id = 11 THEN "ComponentExportSection"
    ELSE IF encoding = "Module" /\ id = 2 THEN "ImportSection"
    ELSE "Section"

\* CustomSectionReader::new has read the name nm
CustomPayload(p, total, payload, nm) ==
    IF nm.ok THEN Parsed(p, total, "CustomSection", 0, nm.str, payload)
    ELSE ParseErr(p, "invalid custom section name")

\* a start or data count section: the one value v must fill the section
SingleItemPayload(p, id, total, payload, v) ==
    IF ~v.ok THEN ParseErr(p, "unexpected end-of-file")
    ELSE IF v.next - 1 # Len(payload) THEN ParseErr(p, "unexpected content in the section")
    ELSE Parsed(p, total, "Section", id, <<>>, payload)

\* a component start section: function index f, argument count a, the
\* arguments, then the result count, which must end the section
ComponentStartPayload(p, total, payload, f, a) ==
    IF f.ok /\ a.ok /\ SkipVarU32s(payload, a.next, a.val).ok
       /\ read_var_u32(payload, SkipVarU32s(payload, a.next, a.val).next).ok
       /\ read_var_u32(payload, SkipVarU32s(payload, a.next, a.val).next).next - 1
            = Len(payload)
    THEN Parsed(p, total, "Section", 9, <<>>, payload)
    ELSE ParseErr(p, "malformed component start section")

\* a section read whole: total bytes with its header, payload inside
WholeSection(p, id, total, payload) ==
    IF id = 0 THEN CustomPayload(p, total, payload, read_string(payload, 1))
    ELSE IF id \in LimitedIds(p.encoding)
         THEN IF read_var_u32(payload, 1).ok
              THEN Parsed(p, total, LimitedKind(p.encoding, id), id, <<>>, payload)
              ELSE ParseErr(p, "unexpected end-of-file")
    ELSE IF id \in SingleItemIds(p.encoding)
         THEN SingleItemPayload(p, id, total, payload, read_var_u32(payload, 1))
    ELSE IF p.encoding = "Component" /\ id = 9
         THEN ComponentStartPayload(p, total, payload, read_var_u32(payload, 1),
                                    read_var_u32(payload, read_var_u32(payload, 1).next))
    \* any other id below 0x80 is an UnknownSection
    ELSE Parsed(p, total, "UnknownSection", id, <<>>, payload)

\* the code section: only its header (hdr bytes) and its count c are consumed
CodeSectionStart(p, hdr, len, c) ==
    IF ~c.ok THEN ParseErr(p, "unexpected end-of-file")
    ELSE IF c.next - 1 - hdr > len THEN ParseErr(p, "unexpected end-of-section")
    ELSE Parsed([p EXCEPT !.st = "FunctionBody", !.remaining = c.val,
                          !.len = len - (c.next - 1 - hdr)],
                c.next - 1, "CodeSectionStart", 10, <<>>, <<>>)

\* a nested module or component: its contents go to a parser of their own
NestedSection(p, id, hdr, len) ==
    [Parsed([p EXCEPT !.max_size = @ - len], hdr,
            IF id = 1 THEN "ModuleSection" ELSE "ComponentSection", id, <<>>, <<>>)
     EXCEPT !.nested = NestedParser(len)]

\* a section with the id read and its length n being read
SectionWithLength(p, data, id, n) ==
    IF id >= 128 THEN ParseErr(p, "malformed section id")
    ELSE IF ~n.ok THEN ParseErr(p, "invalid var_u32")
    ELSE IF p.limited /\ n.next - 1 + n.val > p.max_size
         THEN ParseErr(p, "section too large")
    ELSE IF p.encoding = "Module" /\ id = 10
         THEN CodeSectionStart(p, n.next - 1, n.val, read_var_u32(data, n.next))
    ELSE IF p.encoding = "Component" /\ id \in {1, 4}
         THEN NestedSection(p, id, n.next - 1, n.val)
    ELSE IF n.next - 1 + n.val > Len(data) THEN ParseErr(p, "unexpected end-of-file")
    ELSE WholeSection(p, id, n.next - 1 + n.val,
                      SubSeq(data, n.next, n.next - 1 + n.val))

\* State::SectionStart
ParseSection(p, data) ==
    IF data = <<>> THEN Parsed(p, 0, "End", 0, <<>>, <<>>)
    ELSE SectionWithLength(p, data, data[1], read_var_u32(data, 2))

\* one function body of size n, header included in total
FunctionBody(p, data, n, total) ==
    IF ~n.ok \/ total > Len(data) THEN ParseErr(p, "unexpected end-of-file")
    ELSE IF total > p.len THEN ParseErr(p, "unexpected end-of-section")
    ELSE Parsed([p EXCEPT !.remaining = @ - 1, !.len = @ - total],
                total, "CodeSectionEntry", 10, <<>>, <<>>)

\* Parser::parse_reader
ParseReader(p, data) ==
    IF p.st = "Header" THEN ParseHeader(p, data)
    ELSE IF p.st = "FunctionBody" /\ p.remaining > 0
         THEN FunctionBody(p, data, read_var_u32(data, 1),
                           read_var_u32(data, 1).next - 1 + read_var_u32(data, 1).val)
    ELSE IF p.st = "FunctionBody" /\ p.len > 0
         THEN ParseErr(p, "trailing bytes at end of section")
    ELSE ParseSection([p EXCEPT !.st = "SectionStart"], data)

\* the parser after r: max_size less the bytes consumed
Consumed(r) == IF r.ok THEN [r EXCEPT !.parser.max_size = @ - r.consumed] ELSE r

\* Parser::parse(data, eof = true): one payload and the bytes it consumed
Parse(p, data) ==
    Consumed(ParseReader(p, IF p.limited /\ Len(data) > p.max_size
                            THEN SubSeq(data, 1, p.max_size) ELSE data))

\* Parser::parse_all: the payloads in order; it ends after the first Err and
\* after the End of the outermost parser
RECURSIVE ParseAllFrom(_, _, _)
ParseAllAfter(r, stack, rest) ==
    IF ~r.ok THEN <<r>>
    ELSE IF r.kind \in {"ModuleSection", "ComponentSection"}
         THEN <<r>> \o ParseAllFrom(r.nested, <<r.parser>> \o stack, rest)
    ELSE IF r.kind = "End"
         THEN IF stack = <<>> THEN <<r>>
              ELSE <<r>> \o ParseAllFrom(Head(stack), Tail(stack), rest)
    ELSE <<r>> \o ParseAllFrom(r.parser, stack, rest)

ParseAllChunk(r, stack, data) == ParseAllAfter(r, stack, Drop(data, r.consumed + 1))

ParseAllFrom(cur, stack, data) == ParseAllChunk(Parse(cur, data), stack, data)

parse_all(data) == ParseAllFrom(WasmParser, <<>>, data)

(***************************************************************************)
(* Section items read lazily by SectionLimited's iterator: the items in    *)
(* order, ending after the first Err; bytes left after the last counted    *)
(* item are an Err item.                                                   *)
(***************************************************************************)
ItemErr(msg) == [ok |-> FALSE, err |-> msg, name |-> <<>>, module |-> <<>>, next |-> 0]

Item(module, name, next) ==
    [ok |-> TRUE, err |-> "", name |-> name, module |-> module, next |-> next]

\* the outcome of reading up to a position: failed, or the position after it
NotRead == [ok |-> FALSE, val |-> 0, next |-> 0]

ReadTo(next) == [ok |-> TRUE, val |-> 0, next |-> next]

\* ComponentExternalKind::from_reader: the position after the kind, 0 on error
ReadExternalKind(body, pos) ==
    IF pos > Len(body) THEN 0
    ELSE IF body[pos] = 0
         THEN IF pos + 1 <= Len(body) /\ body[pos + 1] = 17 THEN pos + 2 ELSE 0
    ELSE IF body[pos] \in 1..5 THEN pos + 1
    ELSE 0

\* ComponentTypeRef::from_reader: a value type, type bounds, or a type index
ReadComponentTypeRef(body, pos) ==
    IF pos + 1 > Len(body) THEN NotRead
    ELSE IF body[pos] = 2
         THEN IF body[pos + 1] >= 100 THEN ReadTo(pos + 2)
              ELSE read_var_u32(body, pos + 1)
    ELSE IF body[pos] = 3
         THEN IF body[pos + 1] = 1 THEN ReadTo(pos + 2)
              ELSE IF body[pos + 1] = 0 THEN read_var_u32(body, pos + 2)
              ELSE NotRead
    ELSE IF ReadExternalKind(body, pos) = 0 THEN NotRead
    ELSE read_var_u32(body, ReadExternalKind(body, pos))

ExportWithType(name, ty) ==
    IF ty.ok THEN Item(<<>>, name, ty.next)
    ELSE ItemErr("invalid component type reference")

ExportAfterIndex(body, name, ix) ==
    IF ~ix.ok \/ ix.next > Len(body) THEN ItemErr("unexpected end-of-file")
    ELSE IF body[ix.next] = 0 THEN Item(<<>>, name, ix.next + 1)
    ELSE IF body[ix.next] = 1
         THEN ExportWithType(name, ReadComponentTypeRef(body, ix.next + 1))
    ELSE ItemErr("invalid leading byte for optional component export type")

ExportAfterKind(body, name, k) ==
    IF k = 0 THEN ItemErr("invalid component external kind")
    ELSE ExportAfterIndex(body, name, read_var_u32(body, k))

ExportAfterName(body, nm) ==
    IF ~nm.ok THEN ItemErr("invalid export name")
    ELSE ExportAfterKind(body, nm.str, ReadExternalKind(body, nm.next))

\* ComponentExport::from_reader: name, kind, index, optional type
ReadComponentExport(body, pos) ==
    IF pos > Len(body) THEN ItemErr("unexpected end-of-file")
    ELSE IF body[pos] \notin {0, 1} THEN ItemErr("invalid leading byte for export name")
    ELSE ExportAfterName(body, read_string(body, pos + 1))

\* the maximum of limits whose minimum lo was read
LimitsMax(body, lo) == IF lo.ok THEN read_var_u32(body, lo.next) ELSE lo

\* limits: a flag byte, the minimum and, when the flag says so, the maximum
ReadLimits(body, pos) ==
    IF pos > Len(body) \/ body[pos] > 1 THEN NotRead
    ELSE IF body[pos] = 0 THEN read_var_u32(body, pos + 1)
    ELSE LimitsMax(body, read_var_u32(body, pos + 1))

\* TypeRef::from_reader of a module import
ReadTypeRef(body, pos) ==
    IF pos > Len(body) THEN NotRead
    ELSE IF body[pos] = 0 THEN read_var_u32(body, pos + 1)
    ELSE IF body[pos] = 1 THEN ReadLimits(body, pos + 2)
    ELSE IF body[pos] = 2 THEN ReadLimits(body, pos + 1)
    ELSE IF body[pos] = 3
         THEN IF pos + 2 <= Len(body) /\ body[pos + 2] \in {0, 1}
              THEN ReadTo(pos + 3) ELSE NotRead
    ELSE IF body[pos] = 4 THEN read_var_u32(body, pos + 2)
    ELSE NotRead

ImportWithType(module, name, ty) ==
    IF ty.ok THEN Item(module, name, ty.next) ELSE ItemErr("invalid import type")

ImportAfterName(body, module, nm) ==
    IF ~nm.ok THEN ItemErr("invalid import name")
    ELSE ImportWithType(module, nm.str, ReadTypeRef(body, nm.next))

ImportAfterModule(body, md) ==
    IF ~md.ok THEN ItemErr("invalid import module")
    ELSE ImportAfterName(body, md.str, read_string(body, md.next))

\* Import::from_reader: module, name, TypeRef
ReadImport(body, pos) == ImportAfterModule(body, read_string(body, pos))

RECURSIVE SectionItems(_, _, _, _)
ItemsAfter(kind, body, e, remaining) ==
    IF e.ok THEN <<e>> \o SectionItems(kind, body, e.next, remaining - 1) ELSE <<e>>

SectionItems(kind, body, pos, remaining) ==
    IF remaining = 0
    THEN IF pos > Len(body) THEN <<>>
         ELSE <<ItemErr("section size mismatch: unexpected data at the end of the section")>>
    ELSE ItemsAfter(kind, body,
                    IF kind = "ComponentExportSection"
                    THEN ReadComponentExport(body, pos) ELSE ReadImport(body, pos),
                    remaining)

\* the items of a section whose count c the parser has read
ItemsCounted(kind, body, c) == SectionItems(kind, body, c.next, c.val)

ItemsOf(payload) == ItemsCounted(payload.kind, payload.body, read_var_u32(payload.body, 1))

\* concatenation of a sequence of sequences
RECURSIVE Flat(_)
Flat(ss) == IF ss = <<>> THEN <<>> ELSE Head(ss) \o Flat(Tail(ss))

\* for payload in parse_all(bytes).flatten(): the Ok payloads of one kind
PayloadsOfKind(bytes, kind) ==
    SelectSeq(parse_all(bytes), LAMBDA r : r.ok /\ r.kind = kind)

\* the items of each of the payloads ps
ItemsOfAll(ps) == Flat([i \in 1..Len(ps) |-> ItemsOf(ps[i])])

\* the items the nested loops over the sections of one kind visit, in order
ItemsOfKind(bytes, kind) == ItemsOfAll(PayloadsOfKind(bytes, kind))

(***************************************************************************)
(* anyhow values.  An error is its chain of messages, outermost first; a   *)
(* message is a text, the value formatted into it and the hint it ends     *)
(* with ("" when it has none).  to_string() shows the outermost message.   *)
(***************************************************************************)
Msg(text, arg, hint) == [text |-> text, arg |-> arg, hint |-> hint]

Ok(v) == [ok |-> TRUE, val |-> v, err |-> <<>>, out |-> <<>>]

Err(chain) == [ok |-> FALSE, val |-> <<>>, err |-> chain, out |-> <<>>]

\* a BinaryReaderError of wasmparser
ReaderError(msg) == <<Msg(msg, "", "")>>

\* .context(text) / .with_context(|| text) on an error
WithContext(text, chain) == <<Msg(text, "", "")>> \o chain

(***************************************************************************)
(* fn is_component(bytes) -> Result<bool>                                  *)
(***************************************************************************)
RECURSIVE FirstVersion(_)
FirstVersion(payloads) ==
    IF payloads = <<>> THEN Ok(FALSE)
    ELSE LET payload == Head(payloads)
         IN  IF ~payload.ok THEN Err(ReaderError(payload.err))
             ELSE IF payload.kind = "Version"
                  THEN Ok(payload.parser.encoding = "Component")
             ELSE FirstVersion(Tail(payloads))

\* variant of lines 170-177 that answers Ok(false) when the header cannot be read
is_component_lenient(bytes) ==
    IF FirstVersion(parse_all(bytes)).ok THEN FirstVersion(parse_all(bytes))
    ELSE Ok(FALSE)

is_component(bytes) == FirstVersion(parse_all(bytes))

(***************************************************************************)
(* fn strip_exports_removed_bindgen_section(module) -> Result<Vec<u8>>     *)
(***************************************************************************)
\* the test of lines 254-261: the section is dropped
\* variants of the test of lines 254-261: the prefix alone, the marker alone
IsExportsRemovedSection_prefixOnly(payload) ==
    /\ payload.kind = "CustomSection"
    /\ StartsWith(payload.name, BINDGEN_PREFIX)

IsExportsRemovedSection_markerOnly(payload) ==
    /\ payload.kind = "CustomSection"
    /\ Contains(payload.name, EXPORTS_REMOVED_MARKER)

IsExportsRemovedSection(payload) ==
    /\ payload.kind = "CustomSection"
    /\ StartsWith(payload.name, BINDGEN_PREFIX)
    /\ Contains(payload.name, EXPORTS_REMOVED_MARKER)

\* the while loop; offset counts the bytes consumed so far
RECURSIVE StripLoop(_, _, _, _)
\* variant of the loop body that drops a section only while nothing was dropped
StripChunk_firstOnly(module, chunk, offset, out) ==
    IF ~chunk.ok THEN Err(ReaderError(chunk.err))
    ELSE StripLoop(module, chunk.parser, offset + chunk.consumed,
                   IF ~(IsExportsRemovedSection(chunk) /\ Len(out) = offset)
                   THEN out \o SubSeq(module, offset + 1, offset + chunk.consumed)
                   ELSE out)

\* lines 246-266: the chunk parsed at offset is kept or dropped
StripChunk(module, chunk, offset, out) ==
    IF ~chunk.ok THEN Err(ReaderError(chunk.err))
    ELSE StripLoop(module, chunk.parser, offset + chunk.consumed,
                   IF ~IsExportsRemovedSection(chunk)
                   THEN out \o SubSeq(module, offset + 1, offset + chunk.consumed)
                   ELSE out)

StripLoop(module, parser, offset, out) ==
    IF ~(offset < Len(module)) THEN Ok(out)
    ELSE StripChunk(module, Parse(parser, Drop(module, offset + 1)), offset, out)

strip_exports_removed_bindgen_section(module) ==
    StripLoop(module, WasmParser, 0, <<>>)

(***************************************************************************)
(* fn validate_user_imports(module_bytes, debug): the lines it prints      *)
(***************************************************************************)
\* variant of lines 110-116 without the bare "vtx": "vtx:" stands in its place
trusted_namespaces_withoutBareVtx ==
    << <<119, 97, 115, 105, 95, 115, 110, 97, 112, 115, 104, 111, 116, 95,
         112, 114, 101, 118, 105, 101, 119, 49>>,
       <<119, 97, 115, 105, 58>>,
       <<118, 116, 120, 58>>,
       <<118, 116, 120, 58>>,
       <<95, 95, 119, 98, 105, 110, 100, 103, 101, 110, 95>> >>

\* "wasi_snapshot_preview1", "wasi:", "vtx:", "vtx", "__wbindgen_"
trusted_namespaces ==
    << <<119, 97, 115, 105, 95, 115, 110, 97, 112, 115, 104, 111, 116, 95,
         112, 114, 101, 118, 105, 101, 119, 49>>,
       <<119, 97, 115, 105, 58>>,
       <<118, 116, 120, 58>>,
       <<118, 116, 120>>,
       <<95, 95, 119, 98, 105, 110, 100, 103, 101, 110, 95>> >>

\* variant of line 125 that looks for the prefix anywhere in the name
is_trusted_anywhere(module) ==
    \E i \in 1..Len(trusted_namespaces) : Contains(module, trusted_namespaces[i])

is_trusted(module) ==
    \E i \in 1..Len(trusted_namespaces) : StartsWith(module, trusted_namespaces[i])

\* a printed line: its level, its text and the values formatted into it
Line(level, text, a, b) == [level |-> level, text |-> text, a |-> a, b |-> b]

\* lines 121-144: what one import prints
ImportLines(import, debug) ==
    IF ~is_trusted(import.module)
    THEN <<Line("WARN", "Unknown Import Detected", import.module, import.name)>>
    ELSE IF debug
         THEN <<Line("DEBUG", "Trusted import", import.module, import.name)>>
    ELSE <<>>

ImportsLines(imports, debug) ==
    Flat([i \in 1..Len(imports) |-> ImportLines(imports[i], debug)])

\* variant of line 120 that visits the unreadable entries too
validate_user_imports_unflattened(module_bytes, debug) ==
    ImportsLines(ItemsOfKind(module_bytes, "ImportSection"), debug)

\* both loops are over .flatten(): unreadable payloads and imports are skipped
validate_user_imports(module_bytes, debug) ==
    ImportsLines(SelectSeq(ItemsOfKind(module_bytes, "ImportSection"), LAMBDA e : e.ok),
                 debug)

(***************************************************************************)
(* fn validate_contract(component_bytes, debug) -> Result<()>              *)
(***************************************************************************)
\* variant of lines 205-216 in which an alias of one entrypoint counts for all
MatchExport_anyAlias(st, name, debug) ==
    [st EXCEPT
       !.out = IF debug THEN @ \o <<Line("DEBUG", "Found export", name, <<>>)>> ELSE @,
       !.found_handle =
           @ \/ name \in HANDLE_ALIASES \cup MANIFEST_ALIASES \cup CAPABILITIES_ALIASES,
       !.found_manifest =
           @ \/ name \in HANDLE_ALIASES \cup MANIFEST_ALIASES \cup CAPABILITIES_ALIASES,
       !.found_capabilities =
           @ \/ name \in HANDLE_ALIASES \cup MANIFEST_ALIASES \cup CAPABILITIES_ALIASES]

\* lines 197-216: one export is printed (debug) and matched
MatchExport(st, name, debug) ==
    [st EXCEPT
       !.out = IF debug THEN @ \o <<Line("DEBUG", "Found export", name, <<>>)>> ELSE @,
       !.found_handle = @ \/ name \in HANDLE_ALIASES,
       !.found_manifest = @ \/ name \in MANIFEST_ALIASES,
       !.found_capabilities = @ \/ name \in CAPABILITIES_ALIASES]

\* the loops of lines 192-219 over the exports left to visit; st holds the
\* three flags and the lines printed so far; `export?` returns the Err
RECURSIVE ContractLoop(_, _, _)
ContractLoop(exports, debug, st) ==
    IF exports = <<>> THEN st
    ELSE IF ~Head(exports).ok
         THEN [st EXCEPT !.ok = FALSE, !.err = ReaderError(Head(exports).err)]
    ELSE ContractLoop(Tail(exports), debug, MatchExport(st, Head(exports).name, debug))

MissingExport(short, hint) ==
    <<Msg("Contract Violation: Missing required export", short, hint)>>

Violation(st, chain) == [ok |-> FALSE, val |-> <<>>, err |-> chain, out |-> st.out]

\* variant of lines 221-229 that looks for get-capabilities first
ContractVerdict_capabilitiesFirst(st, debug) ==
    IF ~st.ok THEN Violation(st, st.err)
    ELSE IF ~st.found_capabilities THEN Violation(st, MissingExport(NAME_CAPABILITIES, ""))
    ELSE IF ~st.found_handle
         THEN Violation(st, MissingExport(NAME_HANDLE,
                "Ensure you have implemented the Plugin trait and used 'vtx_sdk::export_plugin!(...)' macro."))
    ELSE IF ~st.found_manifest THEN Violation(st, MissingExport(NAME_MANIFEST, ""))
    ELSE [ok |-> TRUE, val |-> <<>>, err |-> <<>>,
          out |-> IF debug
                  THEN st.out \o <<Line("INFO", "Contract validation passed.", <<>>, <<>>)>>
                  ELSE st.out]

\* lines 221-235: the verdict on the flags the loops left
ContractVerdict(st, debug) ==
    IF ~st.ok THEN Violation(st, st.err)
    ELSE IF ~st.found_handle
         THEN Violation(st, MissingExport(NAME_HANDLE,
                "Ensure you have implemented the Plugin trait and used 'vtx_sdk::export_plugin!(...)' macro."))
    ELSE IF ~st.found_manifest THEN Violation(st, MissingExport(NAME_MANIFEST, ""))
    ELSE IF ~st.found_capabilities THEN Violation(st, MissingExport(NAME_CAPABILITIES, ""))
    ELSE [ok |-> TRUE, val |-> <<>>, err |-> <<>>,
          out |-> IF debug
                  THEN st.out \o <<Line("INFO", "Contract validation passed.", <<>>, <<>>)>>
                  ELSE st.out]

validate_contract(component_bytes, debug) ==
    ContractVerdict(
        ContractLoop(ItemsOfKind(component_bytes, "ComponentExportSection"), debug,
                     [ok |-> TRUE, err |-> <<>>, out |-> <<>>, found_handle |-> FALSE,
                      found_manifest |-> FALSE, found_capabilities |-> FALSE]),
        debug)

(***************************************************************************)
(* fn validate_contract_with_force(component_bytes, debug, force)          *)
(***************************************************************************)
\* lines 151-163: an Err of validate_contract is a warning under force
\* variant of lines 155-163 in which force is not consulted
ForceVerdict_ignored(r, force) == r

\* variant of lines 151-163 in which the failure is absorbed without a trace,
\* as a validator that knew of force would absorb it
ForceVerdict_silent(r, force) ==
    IF force THEN [ok |-> TRUE, val |-> <<>>, err |-> <<>>, out |-> r.out] ELSE r

\* variant of lines 151-163 that lets only a missing export through under force
ForceVerdict_violationsOnly(r, force) ==
    IF ~r.ok /\ force /\ r.err[1].text = "Contract Violation: Missing required export"
    THEN [ok |-> TRUE, val |-> <<>>, err |-> <<>>,
          out |-> r.out \o <<Line("WARN", "Contract validation failed but --force is enabled",
                                  r.err, <<>>)>>]
    ELSE r

ForceVerdict(r, force) ==
    IF ~r.ok /\ force
    THEN [ok |-> TRUE, val |-> <<>>, err |-> <<>>,
          out |-> r.out \o <<Line("WARN", "Contract validation failed but --force is enabled",
                                  r.err, <<>>)>>]
    ELSE r

validate_contract_with_force(component_bytes, debug, force) ==
    ForceVerdict(validate_contract(component_bytes, debug), force)

(***************************************************************************)
(* wit_component::ComponentEncoder, an external service.  What it answers  *)
(* is not decided by this repository: a call ends in an error of one of    *)
(* its three steps (module, adapter, encode) or in the bytes of a          *)
(* component.                                                              *)
(***************************************************************************)
\* WASI_SNAPSHOT_PREVIEW1_ADAPTER_NAME
ADAPTER_NAME == "wasi_snapshot_preview1"

\* WASI_SNAPSHOT_PREVIEW1_REACTOR_ADAPTER, the adapter's bytes, by name
REACTOR_ADAPTER == "WASI_SNAPSHOT_PREVIEW1_REACTOR_ADAPTER"

\* the bytes [0x00, 0x61, 0x73, 0x6d, 0x01, 0x00, 0x00, 0x00]
CORE_MODULE_HEADER == WASM_MAGIC \o <<1, 0, 0, 0>>

\* the header of a component: version 0x0d, layer 1
COMPONENT_HEADER == WASM_MAGIC \o <<13, 0, 1, 0>>

\* the LEB128 encoding of n
RECURSIVE EncodeVarU32(_)
EncodeVarU32(n) ==
    IF n < 128 THEN <<n>> ELSE <<128 + (n % 128)>> \o EncodeVarU32(n \div 128)

\* a string: its length, then its bytes
Str(s) == EncodeVarU32(Len(s)) \o s

\* a section: id, payload length, payload
Section(id, payload) == <<id>> \o EncodeVarU32(Len(payload)) \o payload

CustomSection(name, data) == Section(0, Str(name) \o data)

\* a component export section exporting functions under the given names
ExportSection(names) ==
    Section(11, EncodeVarU32(Len(names))
                  \o Flat([i \in 1..Len(names) |-> <<0>> \o Str(names[i]) \o <<1, 0, 0>>]))

\* import entries of functions, each given as a <<module, field>> pair
ImportEntries(imports) ==
    Flat([i \in 1..Len(imports) |->
            Str(imports[i][1]) \o Str(imports[i][2]) \o <<0, 0>>])

\* a module import section importing functions, each a <<module, field>> pair
ImportSection(imports) ==
    Section(2, EncodeVarU32(Len(imports)) \o ImportEntries(imports))

\* the diagnostic of a failing encoder step: a message and its cause
EncoderError == <<Msg("encoder diagnostic", "", ""), Msg("encoder cause", "", "")>>

\* components the encoder may return: the embedded core module, then exports
EncodedComponents ==
    LET base == COMPONENT_HEADER \o Section(1, CORE_MODULE_HEADER)
    IN  { base,
          base \o ExportSection(<<NAME_HANDLE, PLUGIN_SLASH \o NAME_MANIFEST,
                                  PLUGIN_HASH \o NAME_CAPABILITIES>>),
          base \o ExportSection(<<NAME_HANDLE, NAME_CAPABILITIES>>),
          \* exports in another order, without handle
          base \o ExportSection(<<NAME_CAPABILITIES, PLUGIN_HASH \o NAME_MANIFEST>>) }

EncoderOutcomes ==
    {[step |-> s, err |-> EncoderError, bytes |-> <<>>] : s \in {"module", "adapter", "encode"}}
    \cup {[step |-> "ok", err |-> <<>>, bytes |-> b] : b \in EncodedComponents}

\* lines 63-74: the encoder's answer as process_wasm returns it
encode_component(enc) ==
    IF enc.step = "module"
    THEN Err(WithContext("Failed to encode module into component", enc.err))
    ELSE IF enc.step = "adapter"
    THEN Err(WithContext("Failed to inject WASI preview1 adapter", enc.err))
    ELSE IF enc.step = "encode"
    THEN Err(<<Msg("Component encoding error", enc.err[1].text,
                   "Ensure wit-bindgen version matches adapter requirements.")>>)
    ELSE Ok(enc.bytes)

(***************************************************************************)
(* fn process_wasm(input_wasm_path, debug, force) -> Result<Vec<u8>>, as a *)
(* function of the file at the path and of the encoder's answer.           *)
(***************************************************************************)
\* lines 42-44 and 78-80: the bytes are returned if v, the contract check, is Ok
ReturnChecked(bytes, v) == IF v.ok THEN Ok(bytes) ELSE Err(v.err)

\* lines 76-80
AfterEncode(component, dbg, frc) ==
    IF ~component.ok THEN component
    ELSE ReturnChecked(component.val,
                       validate_contract_with_force(component.val, dbg, frc))

\* lines 49-74
AfterStrip(cleaned, dbg, frc, enc) ==
    IF ~cleaned.ok THEN Err(cleaned.err)
    ELSE AfterEncode(encode_component(enc), dbg, frc)

\* lines 34-49
AfterDetect(bytes, kind, dbg, frc, enc) ==
    IF ~kind.ok
    THEN Err(WithContext("Failed to parse wasm header for component detection", kind.err))
    ELSE IF kind.val
         THEN ReturnChecked(bytes, validate_contract_with_force(bytes, dbg, frc))
    ELSE AfterStrip(strip_exports_removed_bindgen_section(bytes), dbg, frc, enc)

process_wasm(f, dbg, frc, enc) ==
    IF ~f.exists
    THEN Err(WithContext("Failed to read raw wasm from",
                         ReaderError("No such file or directory")))
    ELSE AfterDetect(f.bytes, is_component(f.bytes), dbg, frc, enc)

(***************************************************************************)
(* The inputs of the model: binaries built from a header and at most       *)
(* MaxSections sections of a small library, and the inputs whose header    *)
(* does not parse.                                                         *)
(***************************************************************************)
\* "x"
NAME_X == <<120>>

\* "unknown:lib" and "foo"
UNKNOWN_LIB == <<117, 110, 107, 110, 111, 119, 110, 58, 108, 105, 98>>

NAME_FOO == <<102, 111, 111>>

\* "Vtx": a trusted prefix in another letter case
VTX_CAPITAL == <<86, 116, 120>>

\* "xvtx:": a trusted prefix after position 0
XVTX_COLON == <<120, 118, 116, 120, 58>>

\* "vtxfoo": the letters of a trusted prefix, then more letters
VTXFOO == <<118, 116, 120, 102, 111, 111>>

\* the namespaces of imports the host or the adapter provides:
\* "wasi_snapshot_preview1", "wasi:io", "vtx:api", "vtx", "__wbindgen_x", and "vtxfoo"
TRUSTED_IMPORTS ==
    << <<trusted_namespaces[1], NAME_X>>,
       <<trusted_namespaces[2] \o <<105, 111>>, NAME_FOO>>,
       <<trusted_namespaces[3] \o <<97, 112, 105>>, NAME_X>>,
       <<trusted_namespaces[4], NAME_FOO>>,
       <<trusted_namespaces[5] \o NAME_X, NAME_X>>,
       <<VTXFOO, NAME_X>> >>

\* sections of core modules
ModuleSections ==
    { \* an unrelated custom section
      CustomSection(NAME_X, <<7>>),
      \* a custom section the stripper removes
      CustomSection(BINDGEN_PREFIX \o EXPORTS_REMOVED_MARKER, <<1>>),
      \* custom sections with the prefix alone, and with the prefix not at the start
      CustomSection(BINDGEN_PREFIX \o NAME_X, <<2>>),
      CustomSection(NAME_X \o BINDGEN_PREFIX \o EXPORTS_REMOVED_MARKER, <<3>>),
      \* a code section with one body of two bytes
      <<10, 4, 1, 2, 0, 11>>,
      \* imports unknown:lib::foo, vtx::x, Vtx::x and xvtx:::foo, then an entry
      \* whose type cannot be read
      Section(2, <<5>> \o ImportEntries(<< <<UNKNOWN_LIB, NAME_FOO>>,
                                           <<trusted_namespaces[4], NAME_X>>,
                                           <<VTX_CAPITAL, NAME_X>>,
                                           <<XVTX_COLON, NAME_FOO>> >>)
                       \o Str(UNKNOWN_LIB) \o Str(NAME_X) \o <<9>>),
      \* imports from trusted namespaces only
      ImportSection(TRUSTED_IMPORTS),
      \* a section header declaring a length past the end of the buffer
      <<3, 5, 0>> }

\* sections of components
ComponentSections ==
    { \* a custom section the stripper would remove from a module
      CustomSection(BINDGEN_PREFIX \o EXPORTS_REMOVED_MARKER, <<1>>),
      \* exports: all three entrypoints; no manifest; an unreadable entry
      ExportSection(<<NAME_HANDLE, PLUGIN_SLASH \o NAME_MANIFEST,
                      PLUGIN_HASH \o NAME_CAPABILITIES>>),
      ExportSection(<<NAME_HANDLE, NAME_CAPABILITIES>>),
      Section(11, <<2>> \o <<0>> \o Str(NAME_HANDLE) \o <<1, 0, 0>> \o <<9>>),
      \* a nested component that exports get-manifest and handle
      Section(4, COMPONENT_HEADER
                   \o ExportSection(<<PLUGIN_HASH \o NAME_MANIFEST, NAME_HANDLE>>)),
      \* a section header declaring a length past the end of the buffer
      <<3, 5, 0>> }

SectionLibrary == ModuleSections \cup ComponentSections

\* the lists of at most max sections of a library
ListsUpTo(library, max) == UNION {[1..n -> library] : n \in 0..max}

\* the lists of at most MaxSections sections of a library
SectionLists(library) == ListsUpTo(library, MaxSections)

\* empty, truncated magic, garbage, a version that is neither encoding, a
\* header cut short, a wrong magic before a module's version and a section
BadHeaders ==
    { <<>>, WASM_MAGIC, <<222, 173, 190, 239>>,
      WASM_MAGIC \o <<13, 0, 0, 0>>, WASM_MAGIC \o <<13, 0, 0, 0, 1, 1>>,
      WASM_MAGIC \o <<1, 0, 0>>,
      <<222, 173, 190, 239, 1, 0, 0, 0, 3, 1, 0>> }

Inputs ==
    {CORE_MODULE_HEADER \o Flat(ss) : ss \in SectionLists(ModuleSections)}
    \cup {COMPONENT_HEADER \o Flat(ss) : ss \in SectionLists(ComponentSections)}
    \cup BadHeaders

\* the file at input_wasm_path: absent, or holding one of the inputs
Files ==
    {[exists |-> FALSE, bytes |-> <<>>]} \cup {[exists |-> TRUE, bytes |-> b] : b \in Inputs}

(***************************************************************************)
(* The current directory of a pipeline run and the functions that read it: *)
(* config::load (src/src/config.rs), check_rust_sdk_version                *)
(* (src/src/checker.rs) and create_builder (src/src/builder/mod.rs).       *)
(* An Option is a sequence of at most one element.                         *)
(***************************************************************************)
None == <<>>

Some(x) == <<x>>

\* a path: its directory, the file's name without its extension, the extension
Path(dir, stem, ext) == [dir |-> dir, stem |-> stem, ext |-> ext]

\* the input path of the tests, and Path::with_extension
INPUT_PATH == Path("", "plugin", "wasm")

\* vtx_sdk::VERSION, a constant of the SDK crate: "1.0" stands for it
VERSION == <<49, 46, 48>>

\* "unknown"
UNKNOWN == <<117, 110, 107, 110, 111, 119, 110>>

\* '^', '~', '='
SEMVER_PREFIXES == {94, 126, 61}

\* str::trim_start_matches with a set of characters
RECURSIVE trim_start_matches(_, _)
trim_start_matches(s, chars) ==
    IF s # <<>> /\ Head(s) \in chars THEN trim_start_matches(Tail(s), chars) ELSE s

\* variant of checker.rs line 99 that removes one leading character at most
is_compatible_trimmingOne(user, system) ==
    (IF user # <<>> /\ Head(user) \in SEMVER_PREFIXES THEN Tail(user) ELSE user) = system

\* checker.rs lines 98-101
is_compatible(user, system) == trim_start_matches(user, SEMVER_PREFIXES) = system

\* checker.rs lines 27-30: the vtx-sdk entry of dependencies, else of dev-dependencies
SdkDependency(cargo_toml) ==
    IF cargo_toml.dependencies # None THEN cargo_toml.dependencies
    ELSE cargo_toml.dev_dependencies

\* checker.rs lines 34-37: the entry as a string, else its version key, else "unknown"
UserVersion(v) ==
    IF v.str # None THEN v.str[1]
    ELSE IF v.version # None THEN v.version[1]
    ELSE UNKNOWN

\* checker.rs lines 41-59: the verdict on the declared version
VersionVerdict(user_ver, force) ==
    IF is_compatible(user_ver, VERSION)
    THEN [ok |-> TRUE, val |-> <<>>, err |-> <<>>,
          out |-> <<Line("INFO", "SDK compatibility check passed", user_ver, <<>>)>>]
    ELSE IF force
    THEN [ok |-> TRUE, val |-> <<>>, err |-> <<>>,
          out |-> <<Line("WARN", "SDK Version Mismatch (Force build enabled)",
                         user_ver, VERSION)>>]
    ELSE Err(<<Msg("SDK Version Mismatch", user_ver,
                   "Update vtx-sdk in Cargo.toml or use --force to bypass.")>>)

\* checker.rs lines 17-70, as a function of the Cargo.toml of the project directory
check_rust_sdk_version(cargo_toml, force) ==
    IF ~cargo_toml.exists THEN Ok(<<>>)
    ELSE IF ~cargo_toml.parses THEN Err(<<Msg("TOML parse error", "", "")>>)
    ELSE IF SdkDependency(cargo_toml) = None
    THEN [ok |-> TRUE, val |-> <<>>, err |-> <<>>,
          out |-> <<Line("WARN", "Warning: 'vtx-sdk' dependency not found in Cargo.toml.",
                         <<>>, <<>>)>>]
    ELSE VersionVerdict(UserVersion(SdkDependency(cargo_toml)[1]), force)

\* a Cargo.toml: the vtx-sdk entries of its two dependency tables
CargoToml(dependencies, dev_dependencies) ==
    [exists |-> TRUE, parses |-> TRUE,
     dependencies |-> dependencies, dev_dependencies |-> dev_dependencies]

\* vtx-sdk = "<version>" and vtx-sdk = { version = "<version>" }
Plain(version) == Some([str |-> Some(version), version |-> None])

Table(version) == Some([str |-> None, version |-> version])

\* the Cargo.toml files of the model: none, one that does not parse, and
\* declarations of "1.0", "^1.0", "~=1.0", "2.0", "^2.0", ">=1.0", "1", of no
\* version at all, and of one version in each table
CargoTomls ==
    { [exists |-> FALSE, parses |-> FALSE, dependencies |-> None, dev_dependencies |-> None],
      [exists |-> TRUE, parses |-> FALSE, dependencies |-> None, dev_dependencies |-> None],
      CargoToml(None, None),
      CargoToml(Plain(VERSION), None),
      CargoToml(Table(Some(<<94>> \o VERSION)), None),
      CargoToml(Plain(<<126, 61>> \o VERSION), None),
      CargoToml(Plain(<<50, 46, 48>>), None),
      CargoToml(None, Table(Some(<<94, 50, 46, 48>>))),
      CargoToml(Plain(<<62, 61>> \o VERSION), None),
      CargoToml(Plain(<<49>>), None),
      CargoToml(Table(None), None),
      CargoToml(Plain(VERSION), Plain(<<50, 46, 48>>)) }

\* config.rs lines 75-94, as a function of the vtx.toml of the project directory
config_load(vtx_toml) ==
    IF ~vtx_toml.exists
    THEN Err(<<Msg("Configuration file 'vtx.toml' not found in current directory.", "", "")>>)
    ELSE IF ~vtx_toml.parses
    THEN Err(WithContext("Failed to parse vtx.toml content",
                         <<Msg("TOML parse error", "", "")>>))
    ELSE IF vtx_toml.vtx_version \notin {None, Some(1)}
    THEN Err(<<Msg("Unsupported vtx.toml version", "", "")>>)
    ELSE Ok([project |-> vtx_toml.project, build |-> vtx_toml.build])

\* a vtx.toml that parses
VtxToml(vtx_version, name, language, build) ==
    [exists |-> TRUE, parses |-> TRUE, vtx_version |-> vtx_version,
     project |-> [name |-> name, language |-> language], build |-> build]

BuildConfig(cmd, output_dir, artifact) ==
    Some([cmd |-> cmd, output_dir |-> output_dir, artifact |-> artifact])

\* the vtx.toml files of the model
VtxTomls ==
    { [exists |-> FALSE, parses |-> FALSE, vtx_version |-> None,
       project |-> [name |-> "", language |-> ""], build |-> None],
      VtxToml(Some(2), "cfg-pkg", "rust", None),
      VtxToml(None, "cfg-pkg", "rust", None),
      VtxToml(Some(1), "cfg-pkg", "RS", BuildConfig(Some("make"), None, None)),
      VtxToml(Some(1), "cfg-pkg", "rust", BuildConfig(None, Some("out"), Some("plugin.wasm"))),
      VtxToml(None, "cfg-pkg", "go", BuildConfig(Some("make"), Some("out"), None)),
      VtxToml(None, "cfg-pkg", "cobol", None) }

\* str::to_lowercase on the language identifiers of the model
to_lowercase(language) == IF language = "RS" THEN "rs" ELSE language

\* builder/mod.rs lines 52-65
create_builder(language, build_config) ==
    IF to_lowercase(language) \in {"rust", "rs"} THEN Ok("RustBuilder")
    ELSE IF to_lowercase(language) \in {"go", "tinygo"} THEN Ok("GoBuilder")
    ELSE IF to_lowercase(language) \in {"ts", "typescript", "js", "node"} THEN Ok("TsBuilder")
    ELSE IF to_lowercase(language) \in {"py", "python"} THEN Ok("PythonBuilder")
    ELSE IF to_lowercase(language) = "php" THEN Ok("PhpBuilder")
    ELSE IF to_lowercase(language) = "lua" THEN Ok("LuaBuilder")
    ELSE Err(<<Msg("Unsupported language identifier", to_lowercase(language), "")>>)

\* the project directories of the model
ProjectDirs == [vtx_toml : VtxTomls, cargo_toml : CargoTomls]

\* a directory without vtx.toml and Cargo.toml
EmptyDir ==
    [vtx_toml |-> [exists |-> FALSE, parses |-> FALSE, vtx_version |-> None,
                   project |-> [name |-> "", language |-> ""], build |-> None],
     cargo_toml |-> [exists |-> FALSE, parses |-> FALSE, dependencies |-> None,
                     dev_dependencies |-> None]]

\* cli.rs lines 17-28: --package and --release
BuildArgs == [package : {None, Some("cli-pkg")}, release : BOOLEAN]

\* the arguments of a run that is not a build
NoArgs == [package |-> None, release |-> TRUE]

(***************************************************************************)
(* process_wasm as a state machine: pc is the stage to run next.           *)
(***************************************************************************)
VARIABLES
    file,             \* the file at input_wasm_path when the run starts
    debug, force,     \* the flags of the call
    pc,               \* "read", "detect", "fast_path", "strip", "audit", "encode",
                      \* "contract", or the terminal "Done" / "Failed"
    module_bytes,     \* the bytes read
    cleaned_module,   \* the stripper's output
    component_bytes,  \* the encoder's output
    encoder_calls,    \* the calls made to the encoder, each with its answer
    stages,           \* the stages run so far, each with the bytes it was given
    out,              \* the lines printed so far
    result,           \* what process_wasm returned, once it has
    pipeline,         \* the pipeline that calls process_wasm, "none" for a bare call
    pipeline_pc,      \* "start", "process", or the terminal "Ok" / "Err"
    vtx_files,        \* the files write_vtx_file has written
    pipeline_result,  \* what the pipeline returned, once it has
    wasm_path,        \* the path of the wasm file: given, or resolved by the build
    args,             \* the arguments --package and --release of build
    project_dir,      \* the current directory: vtx.toml and Cargo.toml
    steps             \* the steps a pipeline took before process_wasm and
                      \* after it, each with the arguments it was given

\* the variables of the calling pipeline
caller_vars ==
    <<pipeline, pipeline_pc, vtx_files, pipeline_result, wasm_path, args, project_dir, steps>>

vars ==
    <<file, debug, force, pc, module_bytes, cleaned_module, component_bytes,
      encoder_calls, stages, out, result, caller_vars>>

NoResult == [ok |-> FALSE, val |-> <<>>, err |-> <<>>, out |-> <<>>]

\* process_wasm is about to run on file f, called by pipeline p at position at
Called(f, p, at) ==
    /\ file = f
    /\ debug \in BOOLEAN
    /\ force \in BOOLEAN
    /\ pipeline = p
    /\ pipeline_pc = at
    /\ vtx_files = <<>>
    /\ pipeline_result = NoResult
    /\ pc = "read"
    /\ module_bytes = <<>>
    /\ cleaned_module = <<>>
    /\ component_bytes = <<>>
    /\ encoder_calls = <<>>
    /\ stages = <<>>
    /\ out = <<>>
    /\ result = NoResult

\* the call is made on path, in a run with arguments a in directory dir
Invoked(path, a, dir) ==
    /\ wasm_path = path
    /\ args = a
    /\ project_dir = dir
    /\ steps = <<>>

\* a call of process_wasm on one of the files
Init == \E f \in Files : Called(f, "none", "process") /\ Invoked(INPUT_PATH, NoArgs, EmptyDir)

Stage(name, input) == [stage |-> name, input |-> input]

\* the function returns r
Return(r) ==
    /\ pc' = (IF r.ok THEN "Done" ELSE "Failed")
    /\ result' = r

\* lines 26-31: std::fs::read
ReadInput ==
    /\ pc = "read"
    /\ pipeline_pc = "process"
    /\ stages' = Append(stages, Stage("read", <<>>))
    /\ IF file.exists
       THEN /\ module_bytes' = file.bytes
            /\ pc' = "detect"
            /\ UNCHANGED result
       ELSE /\ Return(Err(WithContext("Failed to read raw wasm from",
                                      ReaderError("No such file or directory"))))
            /\ UNCHANGED module_bytes
    /\ UNCHANGED <<file, debug, force, caller_vars, cleaned_module, component_bytes, encoder_calls,
                   out>>

\* variant of lines 34-40 without the fast path
Detected_noFastPath(kind) ==
    IF ~kind.ok
    THEN /\ Return(Err(WithContext("Failed to parse wasm header for component detection",
                                   kind.err)))
         /\ UNCHANGED out
    ELSE /\ pc' = "strip"
         /\ UNCHANGED <<out, result>>

\* lines 34-40: kind, the answer of is_component, decides the path
Detected(kind) ==
    IF ~kind.ok
    THEN /\ Return(Err(WithContext("Failed to parse wasm header for component detection",
                                   kind.err)))
         /\ UNCHANGED out
    ELSE IF kind.val
    THEN /\ pc' = "fast_path"
         /\ out' = Append(out, Line("INFO", "Input is already a WebAssembly component; skipping adapter injection and encoding.", <<>>, <<>>))
         /\ UNCHANGED result
    ELSE /\ pc' = "strip"
         /\ UNCHANGED <<out, result>>

DetectKind ==
    /\ pc = "detect"
    /\ stages' = Append(stages, Stage("detect", module_bytes))
    /\ Detected(is_component(module_bytes))
    /\ UNCHANGED <<file, debug, force, caller_vars, module_bytes, cleaned_module, component_bytes,
                   encoder_calls>>

\* lines 42-44 and 78-80: v is the answer of validate_contract_with_force
Checked(bytes, v) ==
    /\ out' = out \o v.out
    /\ Return(ReturnChecked(bytes, v))

\* variant of lines 42-44 that returns the component as the stripper leaves it
FastPathValidate_stripped ==
    /\ pc = "fast_path"
    /\ stages' = Append(stages, Stage("contract", module_bytes))
    /\ Checked(strip_exports_removed_bindgen_section(module_bytes).val,
               validate_contract_with_force(module_bytes, debug, force))
    /\ UNCHANGED <<file, debug, force, caller_vars, module_bytes, cleaned_module, component_bytes,
                   encoder_calls>>

\* lines 42-44: the fast path validates the input and returns it
FastPathValidate ==
    /\ pc = "fast_path"
    /\ stages' = Append(stages, Stage("contract", module_bytes))
    /\ Checked(module_bytes, validate_contract_with_force(module_bytes, debug, force))
    /\ UNCHANGED <<file, debug, force, caller_vars, module_bytes, cleaned_module, component_bytes,
                   encoder_calls>>

\* variant of line 49 in which force lets a module through that the stripper
\* could not parse
Stripped_forced(cleaned) ==
    IF cleaned.ok \/ force
    THEN /\ cleaned_module' = (IF cleaned.ok THEN cleaned.val ELSE module_bytes)
         /\ pc' = "audit"
         /\ UNCHANGED result
    ELSE /\ Return(Err(cleaned.err))
         /\ UNCHANGED cleaned_module

\* line 49: cleaned is the stripper's answer
Stripped(cleaned) ==
    IF cleaned.ok
    THEN /\ cleaned_module' = cleaned.val
         /\ pc' = "audit"
         /\ UNCHANGED result
    ELSE /\ Return(Err(cleaned.err))
         /\ UNCHANGED cleaned_module

\* line 49: metadata cleanup
Strip ==
    /\ pc = "strip"
    /\ stages' = Append(stages, Stage("strip", module_bytes))
    /\ Stripped(strip_exports_removed_bindgen_section(module_bytes))
    /\ UNCHANGED <<file, debug, force, caller_vars, module_bytes, component_bytes, encoder_calls, out>>

\* variant of lines 53-60 in which a debug run stops at a warning of the import check
Audit_stoppingOnWarning ==
    /\ pc = "audit"
    /\ stages' = Append(stages, Stage("audit", cleaned_module))
    /\ out' = out \o validate_user_imports(cleaned_module, debug)
    /\ IF debug /\ validate_user_imports(cleaned_module, FALSE) # <<>>
       THEN Return(Err(<<Msg("Unknown Import Detected", "", "")>>))
       ELSE pc' = "encode" /\ UNCHANGED result
    /\ UNCHANGED <<file, debug, force, caller_vars, module_bytes, cleaned_module, component_bytes,
                   encoder_calls>>

\* lines 53-60: the import check, then the adapter is chosen
Audit ==
    /\ pc = "audit"
    /\ stages' = Append(stages, Stage("audit", cleaned_module))
    /\ out' = out \o validate_user_imports(cleaned_module, debug)
                  \o (IF debug
                      THEN <<Line("DEBUG", "Injecting WASI Reactor Adapter", <<>>, <<>>)>>
                      ELSE <<>>)
    /\ pc' = "encode"
    /\ UNCHANGED <<file, debug, force, caller_vars, module_bytes, cleaned_module, component_bytes,
                   encoder_calls, result>>

\* variant of lines 63-74 that enters the encoding stage again after a first failure
Encoded_retrying(component) ==
    IF component.ok
    THEN /\ component_bytes' = component.val
         /\ pc' = "contract"
         /\ UNCHANGED result
    ELSE IF encoder_calls = <<>>
    THEN UNCHANGED <<pc, result, component_bytes>>
    ELSE /\ Return(component)
         /\ UNCHANGED component_bytes

\* lines 63-74: component is what the `?` operators leave of the encoder's answer
Encoded(component) ==
    IF component.ok
    THEN /\ component_bytes' = component.val
         /\ pc' = "contract"
         /\ UNCHANGED result
    ELSE /\ Return(component)
         /\ UNCHANGED component_bytes

\* variant of lines 63-74 that hands the encoder the module as read
Encode_unstripped ==
    /\ pc = "encode"
    /\ stages' = Append(stages, Stage("encode", module_bytes))
    /\ \E enc \in EncoderOutcomes :
          /\ encoder_calls' = Append(encoder_calls,
                                     [module |-> module_bytes,
                                      adapter_name |-> ADAPTER_NAME,
                                      adapter |-> REACTOR_ADAPTER,
                                      validate |-> TRUE,
                                      answer |-> enc])
          /\ Encoded(encode_component(enc))
    /\ UNCHANGED <<file, debug, force, caller_vars, module_bytes, cleaned_module, out>>

\* variant of lines 57-66 that requests the command adapter when force is set
Encode_commandWhenForced ==
    /\ pc = "encode"
    /\ stages' = Append(stages, Stage("encode", cleaned_module))
    /\ \E enc \in EncoderOutcomes :
          /\ encoder_calls' = Append(encoder_calls,
                                     [module |-> cleaned_module,
                                      adapter_name |-> ADAPTER_NAME,
                                      adapter |-> IF force
                                                  THEN "WASI_SNAPSHOT_PREVIEW1_COMMAND_ADAPTER"
                                                  ELSE REACTOR_ADAPTER,
                                      validate |-> TRUE,
                                      answer |-> enc])
          /\ Encoded(encode_component(enc))
    /\ UNCHANGED <<file, debug, force, caller_vars, module_bytes, cleaned_module, out>>

\* lines 63-74: component encoding, by the external encoder
Encode ==
    /\ pc = "encode"
    /\ stages' = Append(stages, Stage("encode", cleaned_module))
    /\ \E enc \in EncoderOutcomes :
          /\ encoder_calls' = Append(encoder_calls,
                                     [module |-> cleaned_module,
                                      adapter_name |-> ADAPTER_NAME,
                                      adapter |-> REACTOR_ADAPTER,
                                      validate |-> TRUE,
                                      answer |-> enc])
          /\ Encoded(encode_component(enc))
    /\ UNCHANGED <<file, debug, force, caller_vars, module_bytes, cleaned_module, out>>

\* variant of lines 78-80 that returns the stripped module
ContractCheck_returningModule ==
    /\ pc = "contract"
    /\ stages' = Append(stages, Stage("contract", component_bytes))
    /\ Checked(cleaned_module,
               validate_contract_with_force(component_bytes, debug, force))
    /\ UNCHANGED <<file, debug, force, caller_vars, module_bytes, cleaned_module,
                   component_bytes, encoder_calls>>

\* lines 78-80: contract validation of the encoded component
ContractCheck ==
    /\ pc = "contract"
    /\ stages' = Append(stages, Stage("contract", component_bytes))
    /\ Checked(component_bytes,
               validate_contract_with_force(component_bytes, debug, force))
    /\ UNCHANGED <<file, debug, force, caller_vars, module_bytes, cleaned_module, component_bytes,
                   encoder_calls>>

Next ==
    \/ ReadInput
    \/ DetectKind
    \/ FastPathValidate
    \/ Strip
    \/ Audit
    \/ Encode
    \/ ContractCheck

Spec == Init /\ [][Next]_vars

\* the run takes the step at pc: every action of Next is enabled by its value
\* of pc alone and leaves it for another position
Proceeds ==
    /\ pc \notin {"Done", "Failed"}
    /\ \E position \in {"detect", "fast_path", "strip", "audit", "encode", "contract",
                        "Done", "Failed"} :
          position # pc /\ pc' = position

\* process_wasm is straight-line code: a call that has not returned goes on
TerminationSpec == Spec /\ WF_pc(Proceeds)

(***************************************************************************)
(* The package and build pipelines (src/src/pipelines) around the call of  *)
(* process_wasm: what precedes the call, and what follows its return.      *)
(* Lines the pipelines print are not recorded: out holds process_wasm's.   *)
(***************************************************************************)
\* Path::with_extension
with_extension(path, ext) == [path EXCEPT !.ext = ext]

\* vtx_format::encode_v2, the external container codec: the envelope by its parts
encode_v2(component, metadata_json) ==
    [version |-> 2, component |-> component, metadata |-> metadata_json]

\* the bytes build_vtx_metadata_json returns, by name
METADATA_JSON == "metadata_json"

\* std::fs::write: it writes the file, or fails before or after creating it
WriteOutcomes == {"written", "not_created", "partial"}

\* the file that a call of std::fs::write leaves at path, if any
FilesLeft(path, buf, outcome) ==
    IF outcome = "written" THEN <<[path |-> path, buf |-> buf, complete |-> TRUE]>>
    ELSE IF outcome = "partial" THEN <<[path |-> path, buf |-> buf, complete |-> FALSE]>>
    ELSE <<>>

\* packager.rs lines 84-96: the result, and the file left on disk
write_vtx_file(input_path, component, metadata_json, outcome) ==
    [ok |-> outcome = "written",
     val |-> with_extension(input_path, "vtx"),
     err |-> IF outcome = "written" THEN <<>>
             ELSE WithContext("Failed to write vtx artifact",
                              ReaderError("std::io::Error")),
     left |-> FilesLeft(with_extension(input_path, "vtx"),
                        encode_v2(component, metadata_json), outcome)]

\* the pipeline returns r
Finished(r) ==
    /\ pipeline_pc' = (IF r.ok THEN "Ok" ELSE "Err")
    /\ pipeline_result' = r

\* the variables of process_wasm, which the pipelines' own steps leave alone
process_vars ==
    <<file, debug, force, pc, module_bytes, cleaned_module, component_bytes, encoder_calls,
      stages, out, result>>

\* a step of a pipeline: the function called, its arguments, its answer
Step(name, arg, answer) == [step |-> name, arg |-> arg, answer |-> answer]

\* package.rs lines 10-19: the input must exist
PackageStart ==
    /\ pipeline = "package" /\ pipeline_pc = "start"
    /\ IF file.exists
       THEN pipeline_pc' = "process" /\ UNCHANGED pipeline_result
       ELSE Finished(Err(<<Msg("Input file not found", "", "")>>))
    /\ UNCHANGED <<process_vars, pipeline, vtx_files, wasm_path, args, project_dir, steps>>

\* build.rs lines 36-38: --package, else project.name of the configuration loaded
PackageName(package_arg, config) ==
    IF package_arg # None THEN package_arg
    ELSE IF config.ok THEN Some(config.val.project.name)
    ELSE None

\* build.rs lines 41-44
Language(config) == IF config.ok THEN config.val.project.language ELSE "rust"

\* build.rs line 33
BuildConfigOf(config) == IF config.ok THEN config.val.build ELSE None

\* build_config.as_ref().and_then(|c| c.cmd.as_ref())
CustomCmd(build_config) == IF build_config = None THEN None ELSE build_config[1].cmd

\* variant of build.rs lines 36-38 in which vtx.toml comes before --package
ResolveName_configFirst ==
    /\ pipeline = "build" /\ pipeline_pc = "start"
    /\ IF ~config_load(project_dir.vtx_toml).ok /\ args.package = None
       THEN Finished(Err(<<Msg("Unable to resolve package name. Please specify via --package or vtx.toml.", "", "")>>))
       ELSE /\ pipeline_pc' = "sdk_check"
            /\ UNCHANGED pipeline_result
    /\ steps' = Append(steps, Step("package_name",
                                   <<>>,
                                   PackageName(IF config_load(project_dir.vtx_toml).ok
                                               THEN None ELSE args.package,
                                               config_load(project_dir.vtx_toml))))
    /\ UNCHANGED <<process_vars, pipeline, vtx_files, wasm_path, args, project_dir>>

\* build.rs lines 30-51: the configuration is loaded if it can be, the name resolved
ResolveName ==
    /\ pipeline = "build" /\ pipeline_pc = "start"
    /\ IF PackageName(args.package, config_load(project_dir.vtx_toml)) = None
       THEN /\ Finished(Err(<<Msg("Unable to resolve package name. Please specify via --package or vtx.toml.", "", "")>>))
            /\ UNCHANGED steps
       ELSE /\ pipeline_pc' = "sdk_check"
            /\ steps' = Append(steps, Step("package_name", <<>>,
                                           PackageName(args.package,
                                                       config_load(project_dir.vtx_toml))))
            /\ UNCHANGED pipeline_result
    /\ UNCHANGED <<process_vars, pipeline, vtx_files, wasm_path, args, project_dir>>

\* check.rs lines 8-17: the configuration must load
LoadConfig ==
    /\ pipeline = "check" /\ pipeline_pc = "start"
    /\ IF config_load(project_dir.vtx_toml).ok
       THEN pipeline_pc' = "sdk_check" /\ UNCHANGED pipeline_result
       ELSE Finished(Err(config_load(project_dir.vtx_toml).err))
    /\ UNCHANGED <<process_vars, pipeline, vtx_files, wasm_path, args, project_dir, steps>>

\* r is the answer of check_rust_sdk_version called with frc
SdkChecked(frc, r) ==
    /\ steps' = Append(steps, Step("check_rust_sdk_version", frc, r))
    /\ IF r.ok
       THEN pipeline_pc' = "create_builder" /\ UNCHANGED pipeline_result
       ELSE Finished(Err(r.err))

\* build.rs lines 54-64, check.rs lines 19-29: the check is made of Rust projects
SdkCheckOf(language, frc) ==
    IF to_lowercase(language) \in {"rust", "rs"}
    THEN SdkChecked(frc, check_rust_sdk_version(project_dir.cargo_toml, frc))
    ELSE /\ pipeline_pc' = "create_builder"
         /\ UNCHANGED <<pipeline_result, steps>>

\* build.rs line 58 passes force, check.rs line 23 passes false
SdkCheck ==
    /\ pipeline \in {"build", "check"} /\ pipeline_pc = "sdk_check"
    /\ SdkCheckOf(Language(config_load(project_dir.vtx_toml)),
                  IF pipeline = "check" THEN FALSE ELSE force)
    /\ UNCHANGED <<process_vars, pipeline, vtx_files, wasm_path, args, project_dir>>

\* build.rs line 67, check.rs line 31: `?` on the answer of create_builder
BuilderCreated(builder) ==
    IF builder.ok
    THEN pipeline_pc' = "check_env" /\ UNCHANGED pipeline_result
    ELSE Finished(Err(builder.err))

CreateBuilder ==
    /\ pipeline \in {"build", "check"} /\ pipeline_pc = "create_builder"
    /\ BuilderCreated(create_builder(Language(config_load(project_dir.vtx_toml)),
                                     BuildConfigOf(config_load(project_dir.vtx_toml))))
    /\ UNCHANGED <<process_vars, pipeline, vtx_files, wasm_path, args, project_dir, steps>>

\* what follows the environment check: check.rs lines 38-44, build.rs line 76
EnvChecked ==
    IF pipeline = "check"
    THEN Finished(Ok(<<>>))
    ELSE pipeline_pc' = "compile" /\ UNCHANGED pipeline_result

\* the answer of Builder::check_env, an external toolchain probe
CheckedEnv(ok) ==
    /\ steps' = Append(steps, Step("check_env", <<>>, ok))
    /\ IF ok THEN EnvChecked
       ELSE Finished(Err(WithContext("Environment validation failed",
                                     <<Msg("toolchain not found", "", "")>>)))

\* variant of build.rs lines 70-74 that checks the environment whatever build.cmd is
CheckEnv_always ==
    /\ pipeline \in {"build", "check"} /\ pipeline_pc = "check_env"
    /\ \E ok \in BOOLEAN : CheckedEnv(ok)
    /\ UNCHANGED <<process_vars, pipeline, vtx_files, wasm_path, args, project_dir>>

\* build.rs lines 70-74, check.rs lines 32-36: skipped when build.cmd is set
CheckEnv ==
    /\ pipeline \in {"build", "check"} /\ pipeline_pc = "check_env"
    /\ IF CustomCmd(BuildConfigOf(config_load(project_dir.vtx_toml))) = None
       THEN \E ok \in BOOLEAN : CheckedEnv(ok)
       ELSE EnvChecked /\ UNCHANGED steps
    /\ UNCHANGED <<process_vars, pipeline, vtx_files, wasm_path, args, project_dir>>

\* build.rs lines 78-86
actual_release == IF debug THEN FALSE ELSE args.release

\* common.rs lines 8-25, by what the shell answers
execute_custom_build(cmd, outcome) ==
    IF outcome = "success" THEN Ok(<<>>)
    ELSE IF outcome = "not_spawned"
    THEN Err(WithContext("Failed to execute build command", <<Msg("std::io::Error", "", "")>>))
    ELSE Err(<<Msg("Custom build command failed", "", "")>>)

\* build.rs lines 89 and 97-99: `?` on the answer r of the compilation called name
Compiled(name, arg, r) ==
    /\ steps' = Append(steps, Step(name, arg, r.ok))
    /\ IF r.ok
       THEN pipeline_pc' = "resolve" /\ UNCHANGED pipeline_result
       ELSE Finished(Err(r.err))

\* build.rs lines 88-100: the custom command, or the builder's build
Compile ==
    /\ pipeline = "build" /\ pipeline_pc = "compile"
    /\ IF CustomCmd(BuildConfigOf(config_load(project_dir.vtx_toml))) # None
       THEN \E outcome \in {"success", "failed", "not_spawned"} :
               Compiled("execute_custom_build", actual_release,
                        execute_custom_build(
                            CustomCmd(BuildConfigOf(config_load(project_dir.vtx_toml)))[1],
                            outcome))
       ELSE \E ok \in BOOLEAN :
               Compiled("build", actual_release,
                        IF ok THEN Ok(<<>>)
                        ELSE Err(WithContext("Source compilation failed",
                                             <<Msg("build failed", "", "")>>)))
    /\ UNCHANGED <<process_vars, pipeline, vtx_files, wasm_path, args, project_dir>>

\* common.rs lines 27-47: exists tells whether the configured artifact is there,
\* found whether Builder::find_output finds one
resolve_wasm_path(build_config, exists, found) ==
    IF build_config # None /\ build_config[1].output_dir # None
                           /\ build_config[1].artifact # None
    THEN IF exists
         THEN Ok(Path(build_config[1].output_dir[1], "plugin", "wasm"))
         ELSE Err(<<Msg("Expected artifact not found at", "", "")>>)
    ELSE IF found
         THEN Ok(Path("target", "plugin", "wasm"))
         ELSE Err(WithContext("Unable to locate compiled artifact",
                              <<Msg("no wasm output", "", "")>>))

\* build.rs lines 103-115: `?` on the answer r of resolve_wasm_path
Resolved(r) ==
    /\ steps' = Append(steps, Step("resolve_wasm_path", actual_release, r.ok))
    /\ IF r.ok
       THEN /\ wasm_path' = r.val
            /\ pipeline_pc' = "process"
            /\ UNCHANGED pipeline_result
       ELSE /\ Finished(Err(r.err))
            /\ UNCHANGED wasm_path

ResolveArtifact ==
    /\ pipeline = "build" /\ pipeline_pc = "resolve"
    /\ \E found \in {b \in BOOLEAN : b => file.exists} :
          Resolved(resolve_wasm_path(BuildConfigOf(config_load(project_dir.vtx_toml)),
                                     file.exists, found))
    /\ UNCHANGED <<process_vars, pipeline, vtx_files, args, project_dir>>

\* variant of the `?` that first saves what the failed run had encoded
PackagingFailed_savingPartial ==
    /\ pipeline \in {"package", "build"} /\ pipeline_pc = "process"
    /\ pc = "Failed"
    /\ vtx_files' = vtx_files
                      \o write_vtx_file(wasm_path, component_bytes, METADATA_JSON,
                                        "written").left
    /\ Finished(Err(WithContext("Component packaging or validation failed", result.err)))
    /\ UNCHANGED <<process_vars, pipeline, wasm_path, args, project_dir, steps>>

\* package.rs lines 21-22, build.rs lines 124-125: `?` on the Err of process_wasm
PackagingFailed ==
    /\ pipeline \in {"package", "build"} /\ pipeline_pc = "process"
    /\ pc = "Failed"
    /\ Finished(Err(WithContext("Component packaging or validation failed", result.err)))
    /\ UNCHANGED <<process_vars, pipeline, vtx_files, wasm_path, args, project_dir, steps>>

\* w is the answer of write_vtx_file
Written(w) ==
    /\ vtx_files' = vtx_files \o w.left
    /\ Finished(IF w.ok THEN Ok(w.val)
                ELSE Err(WithContext("Failed to write final artifact", w.err)))

\* package.rs lines 24-57, build.rs lines 127-146: metadata, then the artifact
WriteArtifact ==
    /\ pipeline \in {"package", "build"} /\ pipeline_pc = "process"
    /\ pc = "Done"
    /\ \E outcome \in WriteOutcomes :
          /\ steps' = Append(steps, Step("write_vtx_file", wasm_path, outcome = "written"))
          /\ Written(write_vtx_file(wasm_path, result.val, METADATA_JSON, outcome))
    /\ UNCHANGED <<process_vars, pipeline, wasm_path, args, project_dir>>

\* the inputs of package runs: binaries of fewer sections
PipelineInputs ==
    {CORE_MODULE_HEADER \o Flat(ss) : ss \in ListsUpTo(ModuleSections, MaxSections - 1)}
    \cup {COMPONENT_HEADER \o Flat(ss) : ss \in ListsUpTo(ComponentSections, MaxSections - 1)}
    \cup BadHeaders

PipelineFiles ==
    {[exists |-> FALSE, bytes |-> <<>>]}
    \cup {[exists |-> TRUE, bytes |-> b] : b \in PipelineInputs}

\* the paths given to --input: with the extension wasm, with the extension of
\* the artifact, and without extension
InputPaths == {INPUT_PATH, Path("", "plugin", "vtx"), Path("", "plugin", "")}

\* what a compilation leaves at the artifact path: nothing, a module, a
\* component that meets the contract, a file that is no wasm binary
BuildArtifacts ==
    { [exists |-> FALSE, bytes |-> <<>>],
      [exists |-> TRUE,
       bytes |-> CORE_MODULE_HEADER \o CustomSection(BINDGEN_PREFIX \o EXPORTS_REMOVED_MARKER,
                                                      <<>>)],
      [exists |-> TRUE,
       bytes |-> COMPONENT_HEADER
                   \o ExportSection(<<NAME_HANDLE, NAME_MANIFEST, NAME_CAPABILITIES>>)],
      [exists |-> TRUE, bytes |-> WASM_MAGIC \o <<1, 0, 0>>] }

PipelineInit ==
    \/ \E f \in PipelineFiles, path \in InputPaths :
          Called(f, "package", "start") /\ Invoked(path, NoArgs, EmptyDir)
    \/ \E f \in BuildArtifacts, a \in BuildArgs, dir \in ProjectDirs :
          Called(f, "build", "start") /\ Invoked(Path("", "", ""), a, dir)
    \/ \E dir \in ProjectDirs :
          /\ Called([exists |-> FALSE, bytes |-> <<>>], "check", "start")
          /\ force = FALSE
          /\ Invoked(Path("", "", ""), NoArgs, dir)

PipelineNext ==
    \/ PackageStart
    \/ ResolveName
    \/ LoadConfig
    \/ SdkCheck
    \/ CreateBuilder
    \/ CheckEnv
    \/ Compile
    \/ ResolveArtifact
    \/ ReadInput
    \/ DetectKind
    \/ FastPathValidate
    \/ Strip
    \/ Audit
    \/ Encode
    \/ ContractCheck
    \/ PackagingFailed
    \/ WriteArtifact

PipelineSpec == PipelineInit /\ [][PipelineNext]_vars

(***************************************************************************)
(* The vocabulary of the properties: what the specification calls the kind *)
(* of a binary, its sections and its exports, read off the bytes without   *)
(* the parser's state machine.                                             *)
(***************************************************************************)
\* the run is over: Done or Failed
Terminated == pc \in {"Done", "Failed"}

\* the kind the 4-byte field after the magic encodes
HeaderKind(bytes) ==
    IF Len(bytes) < 8 \/ SubSeq(bytes, 1, 4) # WASM_MAGIC THEN "None"
    ELSE IF SubSeq(bytes, 5, 8) = <<1, 0, 0, 0>> THEN "CoreModule"
    ELSE IF SubSeq(bytes, 5, 8) = <<13, 0, 1, 0>> THEN "Component"
    ELSE "None"

ComponentInput == file.exists /\ HeaderKind(file.bytes) = "Component"

CoreModuleInput == file.exists /\ HeaderKind(file.bytes) = "CoreModule"

\* the names of the stages run so far, in order
StageNames == [i \in 1..Len(stages) |-> stages[i].stage]

\* the last byte of the section whose length n follows its id: where the
\* header says, or the end of the buffer when the header cannot be read or
\* says more
SectionEndAfter(bytes, n) ==
    IF ~n.ok \/ n.next - 1 + n.val > Len(bytes) THEN Len(bytes)
    ELSE n.next - 1 + n.val

\* a section header at pos that cannot be read, or declares more than there is
BadSectionHeader(bytes, pos, n) ==
    bytes[pos] >= 128 \/ ~n.ok \/ n.next - 1 + n.val > Len(bytes)

\* the raw byte ranges of the top-level sections from pos on, in order
RECURSIVE SectionsFrom(_, _)
SectionsUpTo(bytes, pos, end) == <<SubSeq(bytes, pos, end)>> \o SectionsFrom(bytes, end + 1)

SectionsFrom(bytes, pos) ==
    IF pos > Len(bytes) THEN <<>>
    ELSE SectionsUpTo(bytes, pos, SectionEndAfter(bytes, read_var_u32(bytes, pos + 1)))

\* the sections of a binary, after its 8-byte header
SectionsOf(bytes) == SectionsFrom(bytes, 9)

\* some section header from pos on is malformed
RECURSIVE MalformedFrom(_, _)
MalformedAt(bytes, pos, n) ==
    BadSectionHeader(bytes, pos, n) \/ MalformedFrom(bytes, n.next + n.val)

MalformedFrom(bytes, pos) ==
    IF pos > Len(bytes) THEN FALSE
    ELSE MalformedAt(bytes, pos, read_var_u32(bytes, pos + 1))

\* a binary with a good header and a structurally malformed section
StructurallyMalformed(bytes) ==
    HeaderKind(bytes) # "None" /\ MalformedFrom(bytes, 9)

IsCustom(section) == section[1] = 0

\* the name of a custom section, <<>> when it cannot be read
CustomName(section) == read_string(section, read_var_u32(section, 2).next).str

\* the section is one the Metadata Stripper is to remove
Qualifies(section) ==
    /\ IsCustom(section)
    /\ StartsWith(CustomName(section), BINDGEN_PREFIX)
    /\ Contains(CustomName(section), EXPORTS_REMOVED_MARKER)

\* the export entries of a component that can be read, and their names
ExportItems(bytes) == ItemsOfKind(bytes, "ComponentExportSection")

NamesOf(items) == {items[i].name : i \in {j \in 1..Len(items) : items[j].ok}}

ExportedNames(bytes) == NamesOf(ExportItems(bytes))

\* some export entry of the component cannot be read
UnreadableIn(items) == \E i \in 1..Len(items) : ~items[i].ok

UnreadableExport(bytes) == UnreadableIn(ExportItems(bytes))

\* every alias of at least one required entrypoint is missing among names
LacksIn(names) ==
    \E aliases \in {HANDLE_ALIASES, MANIFEST_ALIASES, CAPABILITIES_ALIASES} :
        aliases \cap names = {}

LacksEntrypoint(bytes) == LacksIn(ExportedNames(bytes))

\* the error is a contract violation
IsContractViolation(chain) ==
    chain # <<>> /\ chain[1].text = "Contract Violation: Missing required export"

\* the warning that --force downgraded a failed contract check was printed
ForcedWarning ==
    \E i \in 1..Len(out) :
        out[i].level = "WARN"
        /\ out[i].text = "Contract validation failed but --force is enabled"

\* the answers the encoder gave or, if it was not called, may give
Answers ==
    IF encoder_calls = <<>> THEN EncoderOutcomes ELSE {encoder_calls[1].answer}

\* contract validation ran in this run and failed
ContractFailed ==
    /\ stages # <<>>
    /\ stages[Len(stages)].stage = "contract"
    /\ ~validate_contract(stages[Len(stages)].input, debug).ok

(***************************************************************************)
(* C1.  Fast-path invariance: whenever process_wasm returns Ok on an input *)
(* whose header classifies it as Component, the bytes returned are the     *)
(* input's bytes.                                                          *)
(***************************************************************************)
C1_FastPathInvariance ==
    (pc = "Done" /\ ComponentInput) => result.val = file.bytes

\* a Component with sections, its contract check failed and downgraded
C1_Witness ==
    /\ pc = "Done" /\ ComponentInput /\ force
    /\ Len(file.bytes) > 8
    /\ ContractFailed
    /\ result.val = file.bytes

C3_MalformedAlwaysFatal ==
    (Terminated /\ file.exists /\ StructurallyMalformed(file.bytes)) => pc = "Failed"

(***************************************************************************)
(* C4.  The force flag only affects the transition out of ContractChecked: *)
(* a finished run whose contract validation did not fail (an earlier stage *)
(* failed, or validation passed) returns what the run with the other value *)
(* of force returns; when contract validation fails, force = TRUE yields   *)
(* Done with the artifact produced so far (the bytes validated) and        *)
(* force = FALSE yields Failed.                                            *)
(***************************************************************************)
\* other is what process_wasm returns with the other value of force
C4_Against(other) ==
    IF ContractFailed
    THEN /\ force => pc = "Done" /\ result = Ok(stages[Len(stages)].input) /\ ~other.ok
         /\ ~force => pc = "Failed" /\ other = Ok(stages[Len(stages)].input)
    ELSE other = result

C4_ForceOnlyAtContractCheck ==
    Terminated =>
        \A enc \in Answers : C4_Against(process_wasm(file, debug, ~force, enc))

\* an encoded component without the manifest export, let through by force
C4_Witness ==
    /\ pc = "Done" /\ CoreModuleInput /\ force
    /\ ContractFailed
    /\ NAME_HANDLE \in ExportedNames(component_bytes)
    /\ result = Ok(component_bytes)

(***************************************************************************)
(* C5.  A Component Encoder failure (module, adapter or encode step) is    *)
(* fatal whatever force is, contract validation is not reached, and the    *)
(* error carries the encoder's diagnostic message and a                    *)
(* version-compatibility hint.                                             *)
(***************************************************************************)
\* the message of the encoder's error appears in the chain
CarriesDiagnostic(chain, diagnostic) ==
    \E i \in 1..Len(chain) :
        chain[i].text = diagnostic[1].text \/ chain[i].arg = diagnostic[1].text

\* some message of the chain ends with a hint
CarriesHint(chain) == \E i \in 1..Len(chain) : chain[i].hint # ""

EncoderFailed == encoder_calls # <<>> /\ encoder_calls[1].answer.step # "ok"

C5_EncoderFailureFatal ==
    (Terminated /\ EncoderFailed) =>
        /\ pc = "Failed"
        /\ "contract" \notin {stages[i].stage : i \in 1..Len(stages)}
        /\ CarriesDiagnostic(result.err, encoder_calls[1].answer.err)
        /\ CarriesHint(result.err)

(***************************************************************************)
(* C6.  On a Component input the run goes from kind detection straight to  *)
(* contract validation: the Metadata Stripper, the Import Auditor and the  *)
(* Component Encoder never run, whatever force is.                         *)
(***************************************************************************)
IsPrefix(s, u) == Len(s) <= Len(u) /\ s = SubSeq(u, 1, Len(s))

C6_ComponentSkipsStages ==
    ComponentInput =>
        /\ IsPrefix(StageNames, <<"read", "detect", "contract">>)
        /\ pc \notin {"strip", "audit", "encode", "contract"}
        /\ encoder_calls = <<>>
        /\ cleaned_module = <<>> /\ component_bytes = <<>>

\* a Component with sections validated on the fast path, under either force
C6_Witness ==
    /\ ComponentInput /\ Terminated
    /\ Len(file.bytes) > 8
    /\ StageNames = <<"read", "detect", "contract">>
    /\ stages[3].input = file.bytes

(***************************************************************************)
(* C7.  On a CoreModule input the stages run in the order strip, import    *)
(* audit (on the stripped bytes), encode (on the stripped bytes), contract *)
(* validation (on the encoded bytes); each runs at most once, and only if  *)
(* every earlier stage succeeded.                                          *)
(***************************************************************************)
\* the stage at position i of the run, given that it ran
C7_StageInput(i, stripped) ==
    IF i = 3 THEN stages[i].input = file.bytes
    ELSE IF i \in {4, 5} THEN stripped.ok /\ stages[i].input = stripped.val
    ELSE IF i = 6
         THEN /\ stripped.ok
              /\ Len(encoder_calls) = 1
              /\ encoder_calls[1].module = stripped.val
              /\ encoder_calls[1].answer.step = "ok"
              /\ stages[i].input = encoder_calls[1].answer.bytes
    ELSE TRUE

C7_StagesAgainst(stripped) ==
    /\ IsPrefix(StageNames, <<"read", "detect", "strip", "audit", "encode", "contract">>)
    /\ \A i \in 1..Len(stages) : C7_StageInput(i, stripped)
    /\ Len(encoder_calls) <= 1

C7_CoreModuleStageOrder ==
    CoreModuleInput =>
        C7_StagesAgainst(strip_exports_removed_bindgen_section(file.bytes))

\* a module with a section to strip that ran through every stage
C7_Witness ==
    /\ CoreModuleInput /\ pc = "Done"
    /\ Len(stages) = 6
    /\ stages[5].input # file.bytes

(***************************************************************************)
(* C8.  The Metadata Stripper's output is the concatenation, in original   *)
(* order, of the raw bytes of the header and of every section except the   *)
(* custom sections whose name starts with the bindgen prefix and contains  *)
(* the exports-removed marker; when no section qualifies the output equals *)
(* the input.                                                              *)
(***************************************************************************)
\* the stripper ran on the module read and succeeded
StripSucceeded ==
    /\ CoreModuleInput
    /\ Len(stages) >= 3
    /\ pc # "Failed" \/ Len(stages) > 3

Kept(section) == ~Qualifies(section)

C8_Against(sections) ==
    /\ cleaned_module = SubSeq(file.bytes, 1, 8) \o Flat(SelectSeq(sections, Kept))
    /\ (\A i \in 1..Len(sections) : Kept(sections[i])) => cleaned_module = file.bytes

C8_StripKeepsRawRanges == StripSucceeded => C8_Against(SectionsOf(file.bytes))

\* a qualifying section was dropped from behind a custom section that has the
\* prefix alone and was kept
C8_WitnessAgainst(sections) ==
    /\ Len(sections) = 2
    /\ Kept(sections[1]) /\ IsCustom(sections[1])
    /\ StartsWith(CustomName(sections[1]), BINDGEN_PREFIX)
    /\ Qualifies(sections[2])
    /\ cleaned_module = SubSeq(file.bytes, 1, 8) \o sections[1]

C8_Witness == StripSucceeded /\ C8_WitnessAgainst(SectionsOf(file.bytes))

(***************************************************************************)
(* C9.  Idempotence of stripping: applying the stripper to its own output  *)
(* succeeds and yields the same bytes.                                     *)
(***************************************************************************)
C9_StripIdempotent ==
    StripSucceeded =>
        strip_exports_removed_bindgen_section(cleaned_module) = Ok(cleaned_module)

\* both sections of the module qualified and were removed
C9_WitnessAgainst(sections) ==
    /\ Len(sections) = 2
    /\ Qualifies(sections[1]) /\ Qualifies(sections[2])
    /\ cleaned_module = CORE_MODULE_HEADER

C9_Witness == StripSucceeded /\ C9_WitnessAgainst(SectionsOf(file.bytes))

(***************************************************************************)
(* C10.  Section-count conservation: of the N custom sections of a module, *)
(* K of which qualify, the stripper's output has exactly N - K, and its    *)
(* non-custom sections are those of the input, byte for byte and in order. *)
(***************************************************************************)
NonCustom(section) == ~IsCustom(section)

C10_Against(before, after) ==
    /\ Len(SelectSeq(after, IsCustom))
         = Len(SelectSeq(before, IsCustom)) - Len(SelectSeq(before, Qualifies))
    /\ SelectSeq(after, NonCustom) = SelectSeq(before, NonCustom)

C10_SectionCountConservation ==
    StripSucceeded => C10_Against(SectionsOf(file.bytes), SectionsOf(cleaned_module))

\* a qualifying section removed from in front of a non-custom section
C10_WitnessAgainst(before, after) ==
    /\ Len(before) = 2
    /\ Qualifies(before[1]) /\ NonCustom(before[2])
    /\ after = <<before[2]>>

C10_Witness ==
    StripSucceeded /\ C10_WitnessAgainst(SectionsOf(file.bytes), SectionsOf(cleaned_module))

(***************************************************************************)
(* C11.  A custom section whose name starts with the bindgen prefix but    *)
(* does not contain the exports-removed marker is preserved in the         *)
(* stripper's output and is reported by a warning of its own, naming it.   *)
(***************************************************************************)
\* a custom section that shares only the prefix
PrefixOnly(section) ==
    /\ IsCustom(section)
    /\ StartsWith(CustomName(section), BINDGEN_PREFIX)
    /\ ~Contains(CustomName(section), EXPORTS_REMOVED_MARKER)

\* a warning was printed that names the section
ReportedUnhandled(section) ==
    \E i \in 1..Len(out) : out[i].level = "WARN" /\ out[i].a = CustomName(section)

C11_Against(before, after) ==
    \A i \in 1..Len(before) :
        PrefixOnly(before[i]) =>
            /\ \E j \in 1..Len(after) : after[j] = before[i]
            /\ ReportedUnhandled(before[i])

C11_PrefixOnlyPreservedAndReported ==
    StripSucceeded => C11_Against(SectionsOf(file.bytes), SectionsOf(cleaned_module))

(***************************************************************************)
(* C12.  The Import Auditor is advisory only: whatever the imports of the  *)
(* module, unreadable entries included, the run goes on to the encoder     *)
(* with the stripped bytes unchanged, and exactly one warning is printed   *)
(* per import whose namespace is untrusted, naming namespace and field;    *)
(* none is printed when every import is trusted or there are no imports.   *)
(***************************************************************************)
ReadOk(e) == e.ok

\* the import entries of a section's payload that can be read, in order
ImportsOfBody(body) ==
    SelectSeq(ItemsCounted("ImportSection", body, read_var_u32(body, 1)), ReadOk)

ImportsOfSection(section) ==
    IF section[1] = 2 THEN ImportsOfBody(Drop(section, read_var_u32(section, 2).next))
    ELSE <<>>

\* the readable imports of a module with the given sections
ImportsOfSections(sections) ==
    Flat([i \in 1..Len(sections) |-> ImportsOfSection(sections[i])])

\* the namespace begins with one of the configured prefixes
BeginsTrusted(namespace) ==
    \E i \in 1..Len(trusted_namespaces) :
        /\ Len(trusted_namespaces[i]) <= Len(namespace)
        /\ \A k \in 1..Len(trusted_namespaces[i]) :
              namespace[k] = trusted_namespaces[i][k]

UntrustedImport(e) == ~BeginsTrusted(e.module)

IsImportWarning(line) == line.level = "WARN" /\ line.text = "Unknown Import Detected"

\* <<namespace, field>> of each element of a sequence of imports or of lines
NamedByImports(imports) == [i \in 1..Len(imports) |-> <<imports[i].module, imports[i].name>>]
NamedByLines(lines) == [i \in 1..Len(lines) |-> <<lines[i].a, lines[i].b>>]

\* the Import Auditor has run
Audited == CoreModuleInput /\ Len(stages) >= 4

C12_Against(imports) ==
    /\ Len(stages) = 4 => pc = "encode" /\ result = NoResult
    /\ Len(stages) >= 5 =>
          /\ stages[5].input = stages[4].input
          /\ encoder_calls[1].module = stages[4].input
    /\ stages[4].input = cleaned_module
    /\ NamedByLines(SelectSeq(out, IsImportWarning))
         = NamedByImports(SelectSeq(imports, UntrustedImport))

C12_ImportAuditorAdvisory ==
    Audited => C12_Against(ImportsOfSections(SectionsOf(cleaned_module)))

\* unknown:lib::foo warned about twice, once per section importing it, in a
\* module with an unreadable import entry, and the encoder was called
C12_Witness ==
    /\ Audited /\ Len(stages) >= 5
    /\ Len(SelectSeq(out, IsImportWarning)) = 6
    /\ out[1].a = UNKNOWN_LIB /\ out[1].b = NAME_FOO
    /\ encoder_calls[1].module = file.bytes

(***************************************************************************)
(* C13.  An import is classified trusted if and only if its namespace      *)
(* begins, case-sensitively, with one of the configured prefixes; a        *)
(* namespace that contains a prefix after position 0, or differs from it   *)
(* in letter case, is untrusted.                                           *)
(***************************************************************************)
\* the line printed for an import under debug says how it was classified
ClassifiedAs(line, import) ==
    /\ line.a = import.module /\ line.b = import.name
    /\ IF BeginsTrusted(import.module)
       THEN line.level = "DEBUG" /\ line.text = "Trusted import"
       ELSE IsImportWarning(line)

C13_Against(imports) ==
    /\ Len(out) >= Len(imports)
    /\ \A i \in 1..Len(imports) : ClassifiedAs(out[i], imports[i])

C13_TrustedIffPrefix ==
    (Audited /\ debug) => C13_Against(ImportsOfSections(SectionsOf(cleaned_module)))

\* "vtx" itself is trusted, "Vtx" and "xvtx:" are not
C13_WitnessAgainst(imports) ==
    /\ Len(imports) = 10
    /\ imports[2].module = trusted_namespaces[4] /\ out[2].level = "DEBUG"
    /\ imports[3].module = VTX_CAPITAL /\ IsImportWarning(out[3])
    /\ imports[4].module = XVTX_COLON /\ IsImportWarning(out[4])
    /\ \A i \in 5..10 : out[i].level = "DEBUG"

C13_Witness ==
    /\ Audited /\ debug
    /\ C13_WitnessAgainst(ImportsOfSections(SectionsOf(cleaned_module)))

(***************************************************************************)
(* C14.  Contract validation succeeds if and only if each of handle,       *)
(* get-manifest and get-capabilities has an export whose name is literally *)
(* one of its aliases 'X', 'vtx:api/plugin/X', 'vtx:api/plugin#X'; schemes *)
(* may be mixed across entrypoints and there is no partial pass.  Exports  *)
(* are the entries of the export sections the parser yields, those of      *)
(* nested components included.                                             *)
(***************************************************************************)
\* contract validation ran, on the bytes ContractInput
ContractRan == stages # <<>> /\ stages[Len(stages)].stage = "contract"

ContractInput == stages[Len(stages)].input

\* the run shows that validate_contract returned Ok: no error, no downgrade
ContractPassed == ContractRan /\ pc = "Done" /\ ~ForcedWarning

FirstMissing(names) ==
    IF HANDLE_ALIASES \cap names = {} THEN NAME_HANDLE
    ELSE IF MANIFEST_ALIASES \cap names = {} THEN NAME_MANIFEST
    ELSE NAME_CAPABILITIES

\* the error of contract validation: returned, or printed in the warning of
\* a forced run
ReportedError == IF pc = "Failed" THEN result.err ELSE out[Len(out)].a

\* contract validation ran on readable exports that lack an entrypoint
MissingEntrypoint ==
    /\ Terminated /\ ContractRan
    /\ LacksEntrypoint(ContractInput) /\ ~UnreadableExport(ContractInput)

C16_ViolationCarriesHint ==
    MissingEntrypoint =>
        /\ IsContractViolation(ReportedError)
        /\ ReportedError[1].arg = FirstMissing(ExportedNames(ContractInput))
        /\ ReportedError[1].hint # ""

(***************************************************************************)
(* C17.  An input shorter than the 8-byte header or with a wrong magic     *)
(* fails during kind detection, before stripping, auditing, encoding or    *)
(* contract validation run, for both values of force, with the             *)
(* header-detection error.                                                 *)
(***************************************************************************)
ShortOrWrongMagic(bytes) == Len(bytes) < 8 \/ SubSeq(bytes, 1, 4) # WASM_MAGIC

\* the run failed in kind detection, with nothing run or printed after it
FailedInDetection ==
    /\ pc = "Failed"
    /\ StageNames = <<"read", "detect">>
    /\ encoder_calls = <<>> /\ out = <<>>
    /\ result.val = <<>>
    /\ result.err[1].text = "Failed to parse wasm header for component detection"

C17_BadHeaderFailsInDetection ==
    (file.exists /\ ShortOrWrongMagic(file.bytes)) =>
        /\ pc \in {"read", "detect", "Failed"}
        /\ Terminated => FailedInDetection

\* the 4-byte truncated magic under force
C17_Witness ==
    /\ file.exists /\ file.bytes = WASM_MAGIC /\ force
    /\ FailedInDetection

(***************************************************************************)
(* C18.  Kind detection is a function of header bytes [4,8) only: the      *)
(* module encoding yields CoreModule, the component encoding yields        *)
(* Component, any other value makes the run fail instead of defaulting to  *)
(* either kind, and the bytes after the header do not change the           *)
(* classification.                                                         *)
(***************************************************************************)
\* the classification the run acted on, once kind detection has run
DetectedAs(kind) ==
    IF kind = "CoreModule"
    THEN IF Len(stages) = 2 THEN pc = "strip" ELSE stages[3].stage = "strip"
    ELSE IF kind = "Component"
    THEN IF Len(stages) = 2 THEN pc = "fast_path" ELSE stages[3].stage = "contract"
    ELSE FailedInDetection

\* the classification that bytes [4,8) encode
KindOfField(field) ==
    IF field = <<1, 0, 0, 0>> THEN "CoreModule"
    ELSE IF field = <<13, 0, 1, 0>> THEN "Component"
    ELSE "None"

C18_KindFromVersionField ==
    (file.exists /\ ~ShortOrWrongMagic(file.bytes) /\ Len(stages) >= 2) =>
        DetectedAs(KindOfField(SubSeq(file.bytes, 5, 8)))

\* a version field that is neither encoding, before further bytes: the run failed
C18_Witness ==
    /\ file.exists /\ Len(file.bytes) > 8
    /\ ~ShortOrWrongMagic(file.bytes)
    /\ KindOfField(SubSeq(file.bytes, 5, 8)) = "None"
    /\ FailedInDetection
    /\ result.err[2].text = "unknown binary version and encoding combination"

(***************************************************************************)
(* C19.  A failed run exposes no artifact: when process_wasm ends in       *)
(* Failed it returns no bytes, and the package and build pipelines return  *)
(* the error without calling write_vtx_file, so that no .vtx file is       *)
(* written.                                                                *)
(***************************************************************************)
C19_FailedRunWritesNothing ==
    pc = "Failed" =>
        /\ ~result.ok /\ result.val = <<>>
        /\ vtx_files = <<>>
        /\ pipeline_pc \in {"process", "Err"}
        /\ pipeline_pc = "Err" =>
              pipeline_result
                = Err(WithContext("Component packaging or validation failed", result.err))

\* the build pipeline returned the error of a run that had encoded a component
\* before it failed the contract
C19_Witness ==
    /\ pc = "Failed" /\ pipeline = "build" /\ pipeline_pc = "Err"
    /\ component_bytes # <<>>
    /\ vtx_files = <<>>

(***************************************************************************)
(* C20.  For a CoreModule input on which encoding succeeds and contract    *)
(* validation fails, force = TRUE makes process_wasm return Ok with the    *)
(* encoder's component bytes (not the input, not the stripped module) and  *)
(* force = FALSE makes it fail.                                            *)
(***************************************************************************)
C20_ForcedReturnsEncoded ==
    (Terminated /\ CoreModuleInput /\ ContractFailed) =>
        IF force
        THEN /\ pc = "Done"
             /\ result = Ok(encoder_calls[1].answer.bytes)
             /\ result.val \notin {file.bytes, cleaned_module}
        ELSE pc = "Failed" /\ result.val = <<>>

\* a module that lost a section to the stripper, encoded without get-manifest
C20_Witness ==
    /\ pc = "Done" /\ CoreModuleInput /\ force /\ ContractFailed
    /\ cleaned_module # file.bytes
    /\ ExportedNames(result.val) = {NAME_HANDLE, NAME_CAPABILITIES}
    /\ result.val = encoder_calls[1].answer.bytes

(***************************************************************************)
(* C21.  Every CoreModule input that reaches the encoding stage has the    *)
(* encoder called once, with the stripped module bytes, the reactor        *)
(* adapter and the fixed preview1 adapter name, whatever the module        *)
(* imports or exports and whatever debug and force are; no other adapter   *)
(* is ever requested.                                                      *)
(***************************************************************************)
\* the run has been through the encoding stage
ReachedEncoding == Len(stages) >= 5 /\ stages[5].stage = "encode"

\* the one request the selector makes for a module that strips to stripped
SelectorRequest(call, stripped) ==
    /\ call.module = stripped.val
    /\ call.adapter = REACTOR_ADAPTER
    /\ call.adapter_name = ADAPTER_NAME

C21_Against(stripped) ==
    /\ \A i \in 1..Len(encoder_calls) : SelectorRequest(encoder_calls[i], stripped)
    /\ ReachedEncoding => (CoreModuleInput /\ Len(encoder_calls) = 1)

C21_AdapterAlwaysReactor ==
    C21_Against(strip_exports_removed_bindgen_section(file.bytes))

\* a forced debug run on a module with untrusted imports and a section to strip
C21_Witness ==
    /\ ReachedEncoding /\ debug /\ force
    /\ cleaned_module # file.bytes
    /\ \E i \in 1..Len(out) : IsImportWarning(out[i])
    /\ encoder_calls[1].adapter = REACTOR_ADAPTER

(***************************************************************************)
(* C22.  Diagnostics are observational only: a finished run returns what   *)
(* process_wasm returns on the same input, force and encoder answer with   *)
(* the other value of debug, and the stages that ran are those that the    *)
(* input and the encoder's answer alone determine, whatever was printed.   *)
(***************************************************************************)
\* the stages after the strip stage, by the stripper's answer
StagesAfterStrip(cleaned, enc) ==
    IF ~cleaned.ok THEN <<>>
    ELSE <<"audit", "encode">> \o (IF enc.step = "ok" THEN <<"contract">> ELSE <<>>)

\* the stages after detection, by the detector's answer
StagesAfterDetect(bytes, kind, enc) ==
    IF ~kind.ok THEN <<>>
    ELSE IF kind.val THEN <<"contract">>
    ELSE <<"strip">> \o StagesAfterStrip(strip_exports_removed_bindgen_section(bytes), enc)

\* the stages of a run on file f to which the encoder, if called, answers enc
StagesOf(f, enc) ==
    IF ~f.exists THEN <<"read">>
    ELSE <<"read", "detect">> \o StagesAfterDetect(f.bytes, is_component(f.bytes), enc)

\* other is what process_wasm returns with the other value of debug
C22_Against(other, expected) ==
    /\ other = result
    /\ StageNames = expected

C22_DiagnosticsObservational ==
    Terminated =>
        \A enc \in Answers :
            C22_Against(process_wasm(file, ~debug, force, enc), StagesOf(file, enc))

\* a debug run that printed an import warning and debug lines and went on to
\* encode and validate
C22_Witness ==
    /\ pc = "Done" /\ debug /\ CoreModuleInput
    /\ \E i \in 1..Len(out) : IsImportWarning(out[i])
    /\ \E i \in 1..Len(out) : out[i].level = "DEBUG" /\ out[i].text = "Found export"
    /\ StageNames = <<"read", "detect", "strip", "audit", "encode", "contract">>

(***************************************************************************)
(* C23.  The validator is stateless and unaware of the override policy:    *)
(* whenever contract validation has run, validate_contract's verdict on    *)
(* the bytes validated is the same for either value of debug and for       *)
(* either value of force and is an error whenever an entrypoint is missing *)
(* or an export unreadable, even in a forced run; the caller               *)
(* validate_contract_with_force returns that verdict unchanged without     *)
(* force, and with force turns an error, and only an error, into a warning *)
(* that carries it.                                                        *)
(***************************************************************************)
\* what the caller makes of the validator's error v under force
Downgraded(v) ==
    [ok |-> TRUE, val |-> <<>>, err |-> <<>>,
     out |-> v.out \o <<Line("WARN", "Contract validation failed but --force is enabled",
                             v.err, <<>>)>>]

\* the last n lines printed
LastLines(n) == SubSeq(out, Len(out) - n + 1, Len(out))

\* the run ended as the verdict shown says
EndedAs(shown) ==
    /\ result.ok = shown.ok
    /\ result.err = shown.err
    /\ Len(out) >= Len(shown.out)
    /\ LastLines(Len(shown.out)) = shown.out

\* v is the validator's verdict, quiet its verdict with the other value of debug
C23_Against(bytes, v, quiet) ==
    /\ quiet.ok = v.ok /\ quiet.err = v.err
    /\ v.ok = (~LacksEntrypoint(bytes) /\ ~UnreadableExport(bytes))
    /\ validate_contract_with_force(bytes, debug, FALSE) = v
    /\ validate_contract_with_force(bytes, debug, TRUE) = (IF v.ok THEN v ELSE Downgraded(v))
    /\ EndedAs(IF force /\ ~v.ok THEN Downgraded(v) ELSE v)

C23_ValidatorUnawareOfForce ==
    (Terminated /\ ContractRan) =>
        C23_Against(ContractInput, validate_contract(ContractInput, debug),
                    validate_contract(ContractInput, ~debug))

\* a forced debug run whose validator found an export and still failed
C23_Witness ==
    /\ pc = "Done" /\ ContractRan /\ force /\ debug
    /\ ~validate_contract(ContractInput, debug).ok
    /\ validate_contract(ContractInput, debug).out # <<>>
    /\ out[Len(out)].a = validate_contract(ContractInput, FALSE).err

(***************************************************************************)
(* C24.  The build pipeline resolves the package name as the --package     *)
(* argument if given, otherwise as project.name of vtx.toml, otherwise it  *)
(* fails with 'Unable to resolve package name'; on that failure no SDK     *)
(* check, environment check, compilation, packaging or file write has been *)
(* performed.  As claimed, every vtx.toml that states project.name gives   *)
(* the name; in the code only a vtx.toml that config::load accepts does.   *)
(***************************************************************************)
\* the build ended with the error of name resolution
NameUnresolved ==
    /\ pipeline = "build" /\ pipeline_pc = "Err"
    /\ pipeline_result.err[1].text
         = "Unable to resolve package name. Please specify via --package or vtx.toml."

\* no step after name resolution was taken
NothingPerformed ==
    /\ steps = <<>>
    /\ stages = <<>> /\ pc = "read"
    /\ encoder_calls = <<>>
    /\ vtx_files = <<>>

\* the name resolved is name, or resolution failed if there is none
C24_Against(name) ==
    IF name = None
    THEN NameUnresolved /\ NothingPerformed
    ELSE ~NameUnresolved /\ steps # <<>> /\ steps[1] = Step("package_name", <<>>, name)

\* vtx.toml is there, parses, and declares version 1 or none
Accepted(vtx_toml) ==
    vtx_toml.exists /\ vtx_toml.parses /\ vtx_toml.vtx_version \in {None, Some(1)}

\* as claimed: project.name of any vtx.toml that states one
C24_NameResolutionAsClaimed ==
    (pipeline = "build" /\ pipeline_pc # "start") =>
        C24_Against(IF args.package # None THEN args.package
                    ELSE IF project_dir.vtx_toml.exists /\ project_dir.vtx_toml.parses
                    THEN Some(project_dir.vtx_toml.project.name)
                    ELSE None)

C24_NameResolution ==
    (pipeline = "build" /\ pipeline_pc # "start") =>
        C24_Against(IF args.package # None THEN args.package
                    ELSE IF Accepted(project_dir.vtx_toml)
                    THEN Some(project_dir.vtx_toml.project.name)
                    ELSE None)

\* a build without --package and without vtx.toml, in a directory whose
\* Cargo.toml the SDK check would have refused
C24_Witness ==
    /\ NameUnresolved /\ NothingPerformed
    /\ ~project_dir.vtx_toml.exists
    /\ ~check_rust_sdk_version(project_dir.cargo_toml, force).ok

(***************************************************************************)
(* C25.  Every run of process_wasm ends in Done or Failed: no stage is     *)
(* entered twice, and on every CoreModule input each iteration of the      *)
(* stripper's scan loop that parses a chunk consumes at least one byte and *)
(* no more than the input has left, so that the offset reaches the end of  *)
(* the input or the loop exits on an error.                                *)
(***************************************************************************)
NoStageReentered ==
    \A i, j \in 1..Len(stages) : stages[i].stage = stages[j].stage => i = j

\* the scan loop from offset on: every chunk parsed advances the offset
RECURSIVE ScanAdvances(_, _, _)
ChunkAdvances(module, chunk, offset) ==
    \/ ~chunk.ok
    \/ /\ chunk.consumed > 0
       /\ offset + chunk.consumed <= Len(module)
       /\ ScanAdvances(module, chunk.parser, offset + chunk.consumed)

ScanAdvances(module, parser, offset) ==
    offset < Len(module) =>
        ChunkAdvances(module, Parse(parser, Drop(module, offset + 1)), offset)

C25_Progress ==
    /\ NoStageReentered
    /\ CoreModuleInput => ScanAdvances(file.bytes, WasmParser, 0)

C25_RunsTerminate == []C25_Progress /\ <>Terminated

\* a finished run on a module of two sections, one of them stripped
C25_Witness ==
    /\ pc = "Done" /\ CoreModuleInput
    /\ Len(stages) = 6
    /\ Len(SectionsOf(file.bytes)) = 2
    /\ Len(SectionsOf(cleaned_module)) = 1

(***************************************************************************)
(* C26.  check_rust_sdk_version answers Ok when Cargo.toml is absent or    *)
(* has no vtx-sdk dependency; when the version declared, its leading '^',  *)
(* '~' and '=' characters removed, is not exactly the CLI's SDK version,   *)
(* it answers an error if called with force = FALSE and Ok, with a warning *)
(* only, if called with force = TRUE.  The build pipeline calls it with    *)
(* its force flag and the check pipeline with FALSE, so that a mismatch    *)
(* always fails the check pipeline.                                        *)
(***************************************************************************)
\* v without its longest run of leading '^', '~' and '='
WithoutPrefixes(v) ==
    SubSeq(v,
           1 + CHOOSE k \in 0..Len(v) :
                   /\ \A i \in 1..k : v[i] \in {94, 126, 61}
                   /\ k = Len(v) \/ v[k + 1] \notin {94, 126, 61},
           Len(v))

\* the vtx-sdk entry a Cargo.toml that parses declares, if any
Declaration(cargo_toml) ==
    IF cargo_toml.dependencies # None THEN cargo_toml.dependencies
    ELSE cargo_toml.dev_dependencies

\* the versions the entry states: as a string, else under its version key
Declared(entry) ==
    IF entry = None THEN {}
    ELSE IF entry[1].str # None THEN {entry[1].str[1]}
    ELSE IF entry[1].version # None THEN {entry[1].version[1]}
    ELSE {}

\* the Cargo.toml declares a version that is not the CLI's
Mismatch(cargo_toml) ==
    /\ cargo_toml.exists /\ cargo_toml.parses
    /\ \E v \in Declared(Declaration(cargo_toml)) : WithoutPrefixes(v) # VERSION

IsSdkWarning(line) == line.level = "WARN" /\ line.text = "SDK Version Mismatch (Force build enabled)"

\* step is a call of check_rust_sdk_version on cargo_toml
C26_Against(step, cargo_toml) ==
    /\ step.arg = (pipeline = "build" /\ force)
    /\ (~cargo_toml.exists \/ (cargo_toml.parses /\ Declaration(cargo_toml) = None))
          => step.answer.ok
    /\ Mismatch(cargo_toml) =>
          /\ step.answer.ok = step.arg
          /\ step.answer.ok => /\ Len(step.answer.out) = 1
                               /\ IsSdkWarning(step.answer.out[1])
          /\ pipeline = "check" => ~step.answer.ok /\ pipeline_pc = "Err"
    /\ (cargo_toml.exists /\ cargo_toml.parses /\ ~Mismatch(cargo_toml)
          /\ Declared(Declaration(cargo_toml)) # {}) => step.answer.ok
    /\ ~step.answer.ok =>
          /\ pipeline_pc = "Err" /\ pipeline_result.err = step.answer.err
          /\ stages = <<>> /\ vtx_files = <<>>

C26_SdkVersionCheck ==
    \A i \in 1..Len(steps) :
        steps[i].step = "check_rust_sdk_version"
            => C26_Against(steps[i], project_dir.cargo_toml)

\* a forced build that went on to its artifact past the declaration "~=1.0"
\* of a version that is the CLI's once both characters are removed
C26_Witness ==
    /\ pipeline = "build" /\ pipeline_pc = "Ok"
    /\ Declared(Declaration(project_dir.cargo_toml)) = {<<126, 61>> \o VERSION}
    /\ \E i \in 1..Len(steps) :
          steps[i].step = "check_rust_sdk_version" /\ steps[i].answer.ok

(***************************************************************************)
(* C27.  The build pipeline takes its steps in the order SDK check,        *)
(* environment check, compilation, artifact resolution, process_wasm,      *)
(* write_vtx_file, each only if every earlier step succeeded.  When        *)
(* build.cmd is configured the environment check is skipped and the custom *)
(* command runs in place of the builder's build, never both; when debug is *)
(* set, compilation and artifact resolution are given release = FALSE      *)
(* whatever --release is.                                                  *)
(***************************************************************************)
\* the names of the steps taken so far, in order
StepNames == [i \in 1..Len(steps) |-> steps[i].step]

\* the step succeeded
StepOk(step) ==
    IF step.step = "package_name" THEN TRUE
    ELSE IF step.step = "check_rust_sdk_version" THEN step.answer.ok
    ELSE step.answer

\* vtx.toml is accepted and configures build.cmd
CmdConfigured(vtx_toml) ==
    Accepted(vtx_toml) /\ vtx_toml.build # None /\ vtx_toml.build[1].cmd # None

\* the project is a Rust project: by its language, or for want of a configuration
RustProject(vtx_toml) ==
    Accepted(vtx_toml) => vtx_toml.project.language \in {"rust", "rs", "RS"}

\* the steps of a build that none of them fails
StepsOfBuild(vtx_toml) ==
    <<"package_name">>
    \o (IF RustProject(vtx_toml) THEN <<"check_rust_sdk_version">> ELSE <<>>)
    \o (IF CmdConfigured(vtx_toml) THEN <<"execute_custom_build">> ELSE <<"check_env", "build">>)
    \o <<"resolve_wasm_path", "write_vtx_file">>

\* the release flag given to the step, if it takes one
ReleaseGiven(step) ==
    step.step \in {"execute_custom_build", "build", "resolve_wasm_path"}
        => step.arg = (~debug /\ args.release)

C27_Against(expected) ==
    /\ IsPrefix(StepNames, expected)
    /\ \A i \in 1..Len(steps) :
          /\ i < Len(steps) => StepOk(steps[i])
          /\ ReleaseGiven(steps[i])
    \* process_wasm runs after a successful artifact resolution
    /\ stages # <<>> =>
          /\ Len(steps) >= Len(expected) - 1
          /\ StepOk(steps[Len(expected) - 1])
    \* write_vtx_file runs after a successful process_wasm
    /\ Len(steps) = Len(expected) => pc = "Done"
    /\ vtx_files # <<>> => Len(steps) = Len(expected)

InputOverwritten ==
    \E i \in 1..Len(vtx_files) : vtx_files[i].path = wasm_path

C28_InputNeverModified ==
    pipeline = "package" => ~InputOverwritten

(***************************************************************************)
(* C29.  With force = TRUE validate_contract_with_force answers Ok on      *)
(* every byte buffer: the error of validate_contract, be it a missing      *)
(* export or an export entry that cannot be read, becomes a warning.       *)
(* Hence process_wasm with force = TRUE returns Ok with the input bytes on *)
(* every input whose header is a valid component header.                   *)
(***************************************************************************)
\* forced is the answer of validate_contract_with_force on a buffer under
\* force, v that of validate_contract
C29_Against(forced, v) ==
    /\ forced.ok
    /\ ~v.ok =>
          /\ forced.out # <<>>
          /\ forced.out[Len(forced.out)].level = "WARN"
          /\ forced.out[Len(forced.out)].a = v.err

\* the buffers of the state: the input, whatever its kind, and what the
\* stripper and the encoder made of it
C29_ForceAbsorbsEveryError ==
    /\ \A bytes \in {file.bytes, cleaned_module, component_bytes} :
          C29_Against(validate_contract_with_force(bytes, debug, TRUE),
                      validate_contract(bytes, debug))
    /\ (Terminated /\ force /\ ComponentInput) => pc = "Done" /\ result = Ok(file.bytes)

\* a forced run on a component with an export entry that cannot be read
C29_Witness ==
    /\ pc = "Done" /\ force /\ ComponentInput
    /\ UnreadableExport(file.bytes)
    /\ ~IsContractViolation(out[Len(out)].a)
    /\ result = Ok(file.bytes)

(***************************************************************************)
(* C30.  Every import whose namespace begins with the letters 'vtx', for   *)
(* example 'vtxfoo' without ':', is classified trusted and is not warned   *)
(* about, and no namespace is classified otherwise for the entry 'vtx:'    *)
(* being in the allowlist: the entry 'vtx' covers it.                      *)
(***************************************************************************)
\* the namespace begins with 'v', 't', 'x'
BeginsVtx(namespace) ==
    Len(namespace) >= 3 /\ SubSeq(namespace, 1, 3) = <<118, 116, 120>>

\* the namespace begins with one of the prefixes
BeginsWithAny(namespace, prefixes) ==
    \E i \in 1..Len(prefixes) :
        /\ Len(prefixes[i]) <= Len(namespace)
        /\ SubSeq(namespace, 1, Len(prefixes[i])) = prefixes[i]

\* "vtx:"
NotVtxColon(prefix) == prefix # <<118, 116, 120, 58>>

\* the line printed under debug for a trusted import
IsTrustedLine(line, import) ==
    /\ line.level = "DEBUG" /\ line.text = "Trusted import"
    /\ line.a = import.module /\ line.b = import.name

C30_Against(imports) ==
    /\ \A i \in 1..Len(out) : IsImportWarning(out[i]) => ~BeginsVtx(out[i].a)
    /\ \A i \in 1..Len(imports) :
          /\ (debug /\ BeginsVtx(imports[i].module)) => IsTrustedLine(out[i], imports[i])
          /\ BeginsWithAny(imports[i].module, trusted_namespaces)
               = BeginsWithAny(imports[i].module,
                               SelectSeq(trusted_namespaces, NotVtxColon))

C30_BareVtxCoversVtxColon ==
    Audited => C30_Against(ImportsOfSections(SectionsOf(cleaned_module)))

\* a debug run on a module importing from vtx:api and from vtxfoo, without warning
C30_WitnessAgainst(imports) ==
    /\ \E i \in 1..Len(imports) :
          imports[i].module = VTXFOO /\ IsTrustedLine(out[i], imports[i])
    /\ \E i \in 1..Len(imports) :
          /\ imports[i].module = <<118, 116, 120, 58, 97, 112, 105>>
          /\ IsTrustedLine(out[i], imports[i])
    /\ \A i \in 1..Len(out) : ~IsImportWarning(out[i])

C30_Witness ==
    /\ Audited /\ debug
    /\ C30_WitnessAgainst(ImportsOfSections(SectionsOf(cleaned_module)))

====
